---------------------------- MODULE Spec2Model ----------------------------
(***************************************************************************)
(* A model of refpapers: the filename grammar (filesystem.py, schema.py),  *)
(* the action filters (filesystem.py), the git adapters (git.py), the      *)
(* persisted stores (conf.py) and the indexing engine (search.py).         *)
(*                                                                         *)
(* Strings are sequences of one-character strings, so that the regular     *)
(* expressions and the str methods of the source are computed character    *)
(* by character.                                                           *)
(***************************************************************************)
EXTENDS Integers, Sequences, FiniteSets, Bags, TLC

\* An optional value of the source (None or a value): a sequence of at most
\* one element, so that None differs from the empty string.
None == <<>>
Some(x) == <<x>>
Get(o) == o[1]

(***************************************************************************)
(* Characters and strings.                                                 *)
(***************************************************************************)
Chars(s) == [i \in 1..Len(s) |-> SubSeq(s, i, i)]

UpperSeq == Chars("ABCDEFGHIJKLMNOPQRSTUVWXYZ")
LowerSeq == Chars("abcdefghijklmnopqrstuvwxyz")
DigitSeq == Chars("0123456789")

UpperSet == {UpperSeq[i] : i \in 1..26}
LowerSet == {LowerSeq[i] : i \in 1..26}
DigitSet == {DigitSeq[i] : i \in 1..10}

\* str.lower() and str.upper() on one character
LowerOf == [c \in UpperSet |-> LowerSeq[CHOOSE i \in 1..26 : UpperSeq[i] = c]]
UpperOf == [c \in LowerSet |-> UpperSeq[CHOOSE i \in 1..26 : LowerSeq[i] = c]]
DigitVal == [c \in DigitSet |-> (CHOOSE i \in 1..10 : DigitSeq[i] = c) - 1]

ToLower(c) == IF c \in UpperSet THEN LowerOf[c] ELSE c
ToUpper(c) == IF c \in LowerSet THEN UpperOf[c] ELSE c

IsDigit(c) == c \in DigitSet
IsUpper(c) == c \in UpperSet
IsLetter(c) == c \in UpperSet \cup LowerSet
\* the regular expression class \w (ASCII)
IsWordChar(c) == IsLetter(c) \/ IsDigit(c) \/ c = "_"
\* what str.split() with no argument splits at
IsSpace(c) == c \in {" ", "\t", "\n"}

lower(s) == [i \in 1..Len(s) |-> ToLower(s[i])]

\* s[i:] and s[:i] of Python, with i a 1-based position here
From(s, i) == SubSeq(s, i, Len(s))
Upto(s, i) == SubSeq(s, 1, i)

\* whether the literal pat occurs in s at position i
MatchAt(s, i, pat) ==
    /\ i >= 1
    /\ i + Len(pat) - 1 <= Len(s)
    /\ \A k \in 1..Len(pat) : s[i + k - 1] = pat[k]

Contains(s, pat) == \E i \in 1..Len(s) : MatchAt(s, i, pat)

\* str.replace(pat, repl): the occurrences left to right, not overlapping
RECURSIVE replace(_, _, _)
replace(s, pat, repl) ==
    IF s = <<>> THEN <<>>
    ELSE IF MatchAt(s, 1, pat) THEN repl \o replace(From(s, Len(pat) + 1), pat, repl)
    ELSE <<s[1]>> \o replace(Tail(s), pat, repl)

\* str.split(sep) with a non-empty separator: a sequence of strings
RECURSIVE splitAcc(_, _, _)
splitAcc(s, sep, cur) ==
    IF s = <<>> THEN <<cur>>
    ELSE IF MatchAt(s, 1, sep) THEN <<cur>> \o splitAcc(From(s, Len(sep) + 1), sep, <<>>)
    ELSE splitAcc(Tail(s), sep, Append(cur, s[1]))

split(s, sep) == splitAcc(s, sep, <<>>)

\* str.split() with no argument: the maximal runs of non-space characters
RECURSIVE splitWsAcc(_, _)
splitWsAcc(s, cur) ==
    IF s = <<>> THEN (IF cur = <<>> THEN <<>> ELSE <<cur>>)
    ELSE IF IsSpace(s[1])
         THEN (IF cur = <<>> THEN <<>> ELSE <<cur>>) \o splitWsAcc(Tail(s), <<>>)
    ELSE splitWsAcc(Tail(s), Append(cur, s[1]))

splitWs(s) == splitWsAcc(s, <<>>)

\* sep.join(parts)
RECURSIVE join(_, _)
join(sep, parts) ==
    IF parts = <<>> THEN <<>>
    ELSE IF Len(parts) = 1 THEN parts[1]
    ELSE parts[1] \o sep \o join(sep, Tail(parts))

\* ''.join(parts)
RECURSIVE concat(_)
concat(parts) == IF parts = <<>> THEN <<>> ELSE parts[1] \o concat(Tail(parts))

\* str.capitalize()
capitalize(w) ==
    [i \in 1..Len(w) |-> IF i = 1 THEN ToUpper(w[i]) ELSE ToLower(w[i])]

\* int(s) of a string of decimal digits
RECURSIVE intOf(_)
intOf(s) == IF s = <<>> THEN 0 ELSE 10 * intOf(Upto(s, Len(s) - 1)) + DigitVal[s[Len(s)]]

\* str(n) of a natural number
RECURSIVE strOf(_)
strOf(n) == IF n < 10 THEN <<DigitSeq[n + 1]>> ELSE strOf(n \div 10) \o <<DigitSeq[(n % 10) + 1]>>

\* four decimal digits at position i of s
Digits4At(s, i) ==
    /\ i >= 1
    /\ i + 3 <= Len(s)
    /\ \A k \in 0..3 : IsDigit(s[i + k])


(***************************************************************************)
(* schema.py: BibtexKey.                                                   *)
(***************************************************************************)
\* the class [a-z-] of RE_BIBTEX
IsKeyStart(c) == c \in LowerSet \/ c = "-"

\* the class [\w\+\.-] that RE_UNWANTED keeps
IsWanted(c) == IsWordChar(c) \/ c \in {"+", ".", "-"}

SKIP_TITLE_WORDS == {Chars("a"), Chars("an"), Chars("on"), Chars("in"), Chars("the")}

BibtexKey(author, year, word) == [author |-> author, year |-> year, word |-> word]

\* BibtexKey.__str__
BibtexKey_str(k) == k.author \o strOf(k.year) \o k.word

\* the positions at which group 2 of RE_BIBTEX can start
BibtexYearStarts(s) ==
    {k \in 2..Len(s) : Digits4At(s, k) /\ k + 4 <= Len(s) /\ IsKeyStart(s[k + 4])}

\* the greedy first group takes the last of them
BibtexSplitAt(s) == CHOOSE k \in BibtexYearStarts(s) : \A j \in BibtexYearStarts(s) : j <= k

\* BibtexKey.parse: the key, or None where the source raises ValueError
BibtexKey_parse(s) ==
    IF s = <<>> \/ ~IsKeyStart(s[1]) \/ BibtexYearStarts(s) = {}
    THEN None
    ELSE LET k == BibtexSplitAt(s)
         IN  Some(BibtexKey(Upto(s, k - 1), intOf(SubSeq(s, k, k + 3)), From(s, k + 4)))

\* RE_UNWANTED.sub('', word) of title_word
RECURSIVE removeUnwanted(_)
removeUnwanted(s) ==
    IF s = <<>> THEN <<>>
    ELSE (IF IsWanted(s[1]) THEN <<s[1]>> ELSE <<>>) \o removeUnwanted(Tail(s))

\* the loop of BibtexKey.title_word over the words that are left
RECURSIVE titleWordOf(_)
titleWordOf(words) ==
    IF words = <<>> THEN <<>>
    ELSE LET word == removeUnwanted(lower(words[1]))
         IN  IF word = <<>> \/ word[1] \notin LowerSet THEN titleWordOf(Tail(words))
             ELSE IF word \in SKIP_TITLE_WORDS THEN titleWordOf(Tail(words))
             ELSE word

\* BibtexKey.title_word
title_word(title) == titleWordOf(splitWs(title))

(***************************************************************************)
(* filesystem.py: the filename grammar.                                    *)
(***************************************************************************)
SEPARATOR == Chars("_-_")
Slash == Chars("/")

\* the reasons of the ParseErrors that parse returns
MissingSeparator == "missing separator"
NoAuthors == "no authors"
NonNameAuthor == "non-name author"
NoYear == "no year"
InvalidBibtex == "invalid BibTex key"

\* RE_NUMBER: ^[0-9]+$
MatchesNumber(s) == s # <<>> /\ \A i \in 1..Len(s) : IsDigit(s[i])
\* RE_NAME: ^[A-Za-z].*$
MatchesName(s) == s # <<>> /\ IsLetter(s[1])

\* RE_MAIN: (.*)_.*([0-9]{4}), matched at the start of the title part.
\* Both .* are greedy: the year is the last run of four digits that has an
\* underscore before it, the title ends at the last underscore before that.
MainYearStarts(s) ==
    {j \in 1..Len(s) : Digits4At(s, j) /\ \E i \in 1..(j - 1) : s[i] = "_"}
MainYearAt(s) == CHOOSE j \in MainYearStarts(s) : \A k \in MainYearStarts(s) : k <= j
MainUnderAt(s) ==
    LET j == MainYearAt(s)
    IN  CHOOSE i \in 1..(j - 1) : s[i] = "_" /\ \A k \in (i + 1)..(j - 1) : s[k] # "_"

\* RE_BOOK, RE_SLIDES, RE_SURVEY, RE_THESIS at position i: _[Bb]ook ...
FlagAt(s, i, flag) ==
    /\ i + Len(flag) <= Len(s)
    /\ s[i] = "_"
    /\ s[i + 1] \in {flag[1], ToUpper(flag[1])}
    /\ MatchAt(s, i + 2, Tail(flag))

HasFlag(s, flag) == \E i \in 1..Len(s) : FlagAt(s, i, flag)

\* RE_BOOK.sub('', title) and the like
RECURSIVE removeFlag(_, _)
removeFlag(s, flag) ==
    IF s = <<>> THEN <<>>
    ELSE IF FlagAt(s, 1, flag) THEN removeFlag(From(s, Len(flag) + 2), flag)
    ELSE <<s[1]>> \o removeFlag(Tail(s), flag)

PUB_FLAGS == <<Chars("book"), Chars("slides"), Chars("survey"), Chars("thesis")>>

\* lines 160-172 of parse: the flags found, in the fixed order, each removed
\* from the title before the next is looked for
RECURSIVE pubTypes(_, _)
pubTypes(title, flags) ==
    IF flags = <<>> THEN [title |-> title, pub_type |-> <<>>]
    ELSE IF HasFlag(title, flags[1])
         THEN LET rest == pubTypes(removeFlag(title, flags[1]), Tail(flags))
              IN  [title |-> rest.title, pub_type |-> <<flags[1]>> \o rest.pub_type]
         ELSE pubTypes(title, Tail(flags))

\* RE_A_FOO.sub(_uncapword, text): (?<![A-Z])(A)([A-Z]), scanned from i
RECURSIVE subAFoo(_, _)
subAFoo(s, i) ==
    IF i > Len(s) THEN <<>>
    ELSE IF /\ s[i] = "A"
            /\ i + 1 <= Len(s)
            /\ IsUpper(s[i + 1])
            /\ (i = 1 \/ ~IsUpper(s[i - 1]))
         THEN <<"A", " ", ToLower(s[i + 1])>> \o subAFoo(s, i + 2)
         ELSE <<s[i]>> \o subAFoo(s, i + 1)

\* RE_CAPWORDS.sub(_uncapword, text): ([^A-Z])([A-Z])
RECURSIVE subCapwords(_)
subCapwords(s) ==
    IF s = <<>> THEN <<>>
    ELSE IF Len(s) >= 2 /\ ~IsUpper(s[1]) /\ IsUpper(s[2])
         THEN <<s[1], " ", ToLower(s[2])>> \o subCapwords(From(s, 3))
         ELSE <<s[1]>> \o subCapwords(Tail(s))

\* the mutation: RE_A_FOO is not applied
uncapword_noAFoo(text) == subCapwords(text)

uncapword(text) == subCapwords(subAFoo(text, 1))

\* RE_MULTISPACE.sub(' ', text)
RECURSIVE subMultispace(_)
subMultispace(s) ==
    IF s = <<>> THEN <<>>
    ELSE IF s[1] = " " /\ Len(s) >= 2 /\ s[2] = " " THEN subMultispace(Tail(s))
    ELSE <<s[1]>> \o subMultispace(Tail(s))

\* word.capitalize() of every word
RECURSIVE capitalizeAll(_)
capitalizeAll(words) ==
    IF words = <<>> THEN <<>> ELSE <<capitalize(words[1])>> \o capitalizeAll(Tail(words))

capword(text) == concat(capitalizeAll(splitWs(replace(text, <<"-">>, <<" ">>))))

\* os.path.split: the part before the last slash and the part after it
LastSlash(p) ==
    IF \E i \in 1..Len(p) : p[i] = "/"
    THEN CHOOSE i \in 1..Len(p) : p[i] = "/" /\ \A k \in (i + 1)..Len(p) : p[k] # "/"
    ELSE 0
DirName(p) == IF LastSlash(p) <= 1 THEN Upto(p, LastSlash(p)) ELSE Upto(p, LastSlash(p) - 1)
BaseName(p) == From(p, LastSlash(p) + 1)

Paper(path, bibtex, title, authors, year, pub_type, tags, number, doi, arxiv) ==
    [path |-> path, bibtex |-> bibtex, title |-> title, authors |-> authors,
     year |-> year, pub_type |-> pub_type, tags |-> tags, number |-> number,
     doi |-> doi, arxiv |-> arxiv]

ParseError(path, reason) == [path |-> path, reason |-> reason]

\* file_name.split(SEPARATOR) unpacked into two names: any other number of
\* parts raises the ValueError that parse reports as a missing separator
SeparatorParts(file_name) == split(file_name, SEPARATOR)

\* the mutation: split at the first separator only, as split(SEPARATOR, 1)
RECURSIVE splitFirst(_, _, _)
splitFirst(s, sep, cur) ==
    IF s = <<>> THEN <<cur>>
    ELSE IF MatchAt(s, 1, sep) THEN <<cur, From(s, Len(sep) + 1)>>
    ELSE splitFirst(Tail(s), sep, Append(cur, s[1]))

\* parse, from the title part on (lines 151-193)
parseTitle(file_path, tags, authors, number, title_part) ==
    IF MainYearStarts(title_part) = {} THEN [paper |-> None, error |-> Some(ParseError(file_path, NoYear))]
    ELSE
    LET flagged == pubTypes(Upto(title_part, MainUnderAt(title_part) - 1), PUB_FLAGS)
        title == subMultispace(uncapword(replace(flagged.title, <<"_">>, Chars(" - "))))
        year == intOf(SubSeq(title_part, MainYearAt(title_part), MainYearAt(title_part) + 3))
        bibtex == BibtexKey(lower(authors[1]), year, title_word(title))
    IN  IF BibtexKey_parse(BibtexKey_str(bibtex)) = None
        THEN [paper |-> None, error |-> Some(ParseError(file_path, InvalidBibtex))]
        ELSE [paper |-> Some(Paper(file_path, bibtex, title, authors, year, flagged.pub_type,
                                   tags, number, None, None)),
              error |-> None]

\* parse(file_path, root): (Paper, None) or (None, ParseError)
parse(file_path, root) ==
    LET file_name == BaseName(file_path)
        dirs == split(DirName(file_path), Slash)
        nroot == Len(split(root, Slash))
        tags == SubSeq(dirs, nroot + 1, Len(dirs))
        parts == SeparatorParts(file_name)
    IN  IF Len(parts) # 2 THEN [paper |-> None, error |-> Some(ParseError(file_path, MissingSeparator))]
        ELSE
        LET tokens == split(parts[1], <<"_">>)
            numbered == MatchesNumber(tokens[1])
            number == IF numbered THEN Some(tokens[1]) ELSE None
            authors == IF numbered THEN Tail(tokens) ELSE tokens
        IN  IF authors = <<>> THEN [paper |-> None, error |-> Some(ParseError(file_path, NoAuthors))]
            ELSE IF \E i \in 1..Len(authors) : ~MatchesName(authors[i])
                 THEN [paper |-> None, error |-> Some(ParseError(file_path, NonNameAuthor))]
            ELSE parseTitle(file_path, tags, authors, number, parts[2])

(***************************************************************************)
(* utils.py: beautify_hyphen_compounds and beautify_contractions.          *)
(***************************************************************************)
HYPHEN_JOIN_PREFIXES ==
    <<Chars("cross"), Chars("low"), Chars("multi"), Chars("n"),
      Chars("non"), Chars("pre"), Chars("semi"), Chars("sub")>>

\* \b(prefix)-([\w]) with IGNORECASE, at position i of s
HyphenPrefixAt(s, i, prefix) ==
    /\ i + Len(prefix) + 1 <= Len(s)
    /\ (i = 1 \/ ~IsWordChar(s[i - 1]))
    /\ lower(SubSeq(s, i, i + Len(prefix) - 1)) = prefix
    /\ s[i + Len(prefix)] = "-"
    /\ IsWordChar(s[i + Len(prefix) + 1])

\* pattern.sub(r'\1\2', text) of one prefix, scanned from i
RECURSIVE subHyphenPrefix(_, _, _)
subHyphenPrefix(s, i, prefix) ==
    IF i > Len(s) THEN <<>>
    ELSE IF HyphenPrefixAt(s, i, prefix)
         THEN SubSeq(s, i, i + Len(prefix) - 1) \o <<s[i + Len(prefix) + 1]>>
              \o subHyphenPrefix(s, i + Len(prefix) + 2, prefix)
         ELSE <<s[i]>> \o subHyphenPrefix(s, i + 1, prefix)

RECURSIVE subHyphenPrefixes(_, _)
subHyphenPrefixes(s, prefixes) ==
    IF prefixes = <<>> THEN s
    ELSE subHyphenPrefixes(subHyphenPrefix(s, 1, prefixes[1]), Tail(prefixes))

\* RE_INTRAWORD_HYPHEN.sub(r'\1 \2', text): ([\w])-([\w])
RECURSIVE subIntrawordHyphen(_)
subIntrawordHyphen(s) ==
    IF s = <<>> THEN <<>>
    ELSE IF Len(s) >= 3 /\ IsWordChar(s[1]) /\ s[2] = "-" /\ IsWordChar(s[3])
         THEN <<s[1], " ", s[3]>> \o subIntrawordHyphen(From(s, 4))
         ELSE <<s[1]>> \o subIntrawordHyphen(Tail(s))

beautify_hyphen_compounds(text) ==
    subIntrawordHyphen(subHyphenPrefixes(text, HYPHEN_JOIN_PREFIXES))

CONTRACTIONS ==
    << <<Chars("n't"), Chars("nt")>>, <<Chars("ll'em"), Chars("ll them")>>,
       <<Chars("I'm"), Chars("I am")>>, <<Chars("'s"), Chars("s")>>,
       <<Chars("won't"), Chars("wont")>> >>

\* re.compile(pat + r'\b').sub(repl, text): every pattern ends in a letter,
\* so the \b holds where no word character follows
RECURSIVE subContraction(_, _, _)
subContraction(s, pat, repl) ==
    IF s = <<>> THEN <<>>
    ELSE IF MatchAt(s, 1, pat) /\ (Len(s) = Len(pat) \/ ~IsWordChar(s[Len(pat) + 1]))
         THEN repl \o subContraction(From(s, Len(pat) + 1), pat, repl)
         ELSE <<s[1]>> \o subContraction(Tail(s), pat, repl)

RECURSIVE subContractions(_, _)
subContractions(s, pairs) ==
    IF pairs = <<>> THEN s
    ELSE subContractions(subContraction(s, pairs[1][1], pairs[1][2]), Tail(pairs))

beautify_contractions(text) == subContractions(text, CONTRACTIONS)

(***************************************************************************)
(* filesystem.py: generate.                                                *)
(***************************************************************************)
ET_AL == Chars("etAl")

RECURSIVE generateAuthors(_)
generateAuthors(authors) ==
    IF authors = <<>> THEN <<>>
    ELSE <<IF authors[1] # ET_AL THEN capword(authors[1]) ELSE authors[1]>>
         \o generateAuthors(Tail(authors))

\* RE_UNWANTED.sub('_', filename)
subUnwanted(s) == [i \in 1..Len(s) |-> IF IsWanted(s[i]) THEN s[i] ELSE "_"]

\* filename.lstrip('.')
RECURSIVE lstripDots(_)
lstripDots(s) == IF s # <<>> /\ s[1] = "." THEN lstripDots(Tail(s)) ELSE s

\* unidecode(filename, errors='replace', replace_str='_'): every character
\* of the strings of this model is ASCII, and unidecode returns ASCII as is
unidecode(s) == s

\* RE_MULTIUNDER.sub('_', filename)
RECURSIVE subMultiunder(_)
subMultiunder(s) ==
    IF s = <<>> THEN <<>>
    ELSE IF s[1] = "_" /\ Len(s) >= 2 /\ s[2] = "_" THEN subMultiunder(Tail(s))
    ELSE <<s[1]>> \o subMultiunder(Tail(s))

\* os.path.join of two components
pathJoin(a, b) ==
    IF b # <<>> /\ b[1] = "/" THEN b
    ELSE IF a = <<>> \/ a[Len(a)] = "/" THEN a \o b
    ELSE a \o Slash \o b

\* os.path.join(*parts)
RECURSIVE pathJoinAll(_)
pathJoinAll(parts) ==
    IF Len(parts) = 1 THEN parts[1]
    ELSE pathJoinAll(<<pathJoin(parts[1], parts[2])>> \o SubSeq(parts, 3, Len(parts)))

\* lines 199-206 of generate
generateTitle(title) ==
    capword(subMultispace(
        replace(replace(replace(beautify_contractions(beautify_hyphen_compounds(title)),
                                Chars(": "), Chars("_ ")),
                        <<"-">>, Chars("_ ")),
                <<"?">>, <<" ">>)))

\* the flags of generate: the pub_type in the order the Paper holds it
generateFlags(pub_type) == IF Len(pub_type) > 0 THEN <<"_">> \o join(<<"_">>, pub_type) ELSE <<>>

\* generate(paper, root, tags=None, suffix), root None or a string
generate(paper, root, suffix) ==
    LET authors == join(<<"_">>, generateAuthors(paper.authors))
        number == IF paper.number # None /\ Get(paper.number) # <<>>
                  THEN Get(paper.number) \o <<"_">> ELSE <<>>
        filename == subMultiunder(unidecode(lstripDots(subUnwanted(
                        number \o authors \o Chars("_-_") \o generateTitle(paper.title)
                        \o generateFlags(paper.pub_type) \o <<"_">> \o strOf(paper.year)
                        \o <<".">> \o suffix))))
        path == pathJoinAll(paper.tags \o <<filename>>)
    IN  IF root # None /\ Get(root) # <<>> THEN pathJoin(Get(root), path) ELSE path

(***************************************************************************)
(* The files under the data root.  A file of the state is named by its     *)
(* path, a string; the functions of the source read the characters.        *)
(***************************************************************************)
\* conf.paths.data
DataRoot == Chars("r")

PaperA == "r/Cho_-_Deep_2021.pdf"
PaperB == "r/nlp/Lee_-_ACore_2020.pdf"
NotesFile == "r/notes.pdf"
TextFile == "r/Cho_-_Deep_2021.txt"
GitDirFile == "r/.git/Kim_-_Obj_2019.pdf"

\* the papers that come and go, and the files that git sees
DynFiles == {PaperA, PaperB}
TreeFiles == DynFiles \cup {NotesFile, TextFile}
\* paths that only the filters see: an upper-case ending, a directory whose
\* name ends in .git, a name that is an ending and nothing else
UpperFile == "r/Cho_-_Deep_2021.PDF"
GitLikeFile == "r/x.git/Kim_-_Obj_2019.djvu"
DotFile == "r/.pdf"
OtherFiles == {UpperFile, GitLikeFile, DotFile}
AllFiles == TreeFiles \cup {GitDirFile} \cup OtherFiles

PathChars == [f \in AllFiles |-> Chars(f)]

\* the order of str: by character code
AsciiSeq == Chars("-./0123456789ABCDEFGHIJKLMNOPQRSTUVWXYZ_abcdefghijklmnopqrstuvwxyz")
CharCode(c) == CHOOSE i \in 1..Len(AsciiSeq) : AsciiSeq[i] = c

RECURSIVE StrLess(_, _)
StrLess(s, t) ==
    IF t = <<>> THEN FALSE
    ELSE IF s = <<>> THEN TRUE
    ELSE IF s[1] # t[1] THEN CharCode(s[1]) < CharCode(t[1])
    ELSE StrLess(Tail(s), Tail(t))

\* the order of Path: by the tuple of parts
RECURSIVE PartsLess(_, _)
PartsLess(p, q) ==
    IF q = <<>> THEN FALSE
    ELSE IF p = <<>> THEN TRUE
    ELSE IF p[1] # q[1] THEN StrLess(p[1], q[1])
    ELSE PartsLess(Tail(p), Tail(q))

\* Path.parts
PathParts(path) == split(path, Slash)

\* sorted(paths), of Path objects
RECURSIVE sortedPaths(_)
sortedPaths(S) ==
    IF S = {} THEN <<>>
    ELSE LET m == CHOOSE f \in S : \A g \in S \ {f} :
                      PartsLess(PathParts(PathChars[f]), PathParts(PathChars[g]))
         IN  <<m>> \o sortedPaths(S \ {m})

\* the order in which git lists paths
RECURSIVE gitSorted(_)
gitSorted(S) ==
    IF S = {} THEN <<>>
    ELSE LET m == CHOOSE f \in S : \A g \in S \ {f} : StrLess(PathChars[f], PathChars[g])
         IN  <<m>> \o gitSorted(S \ {m})

(***************************************************************************)
(* schema.py: IndexingAction, and conf.py: the configuration and the       *)
(* decisions.  The paper of an action is named by its path: before parse   *)
(* it is the Path, after parse the Paper that parse returns for the path.  *)
(***************************************************************************)
IndexingAction(action, path) == [action |-> action, path |-> path]

SCHEMA_VERSION == "v0.2"

GitNew == {"WARN", "IGNORE", "ADD"}

IGNORE == "IGNORE"
FULLTEXT_TOO_SLOW == "FULLTEXT_TOO_SLOW"

Decision(relation, arg1) == [relation |-> relation, arg1 |-> arg1]

\* Decisions.get(relation), as the set of its first arguments
decisionsGet(decisions, relation) == {d.arg1 : d \in {e \in decisions : e.relation = relation}}

\* Conf.all_endings with no viewer and no extractor configured
all_endings == {Chars("pdf"), Chars("djvu")}

(***************************************************************************)
(* filesystem.py: the filters.                                             *)
(***************************************************************************)
is_in_gitdir(path) ==
    \E i \in 1..Len(PathParts(path)) : PathParts(path)[i] = Chars(".git")

\* Path.suffix: the last dot of the name and what follows it
LastDot(name) ==
    IF \E i \in 1..Len(name) : name[i] = "."
    THEN CHOOSE i \in 1..Len(name) : name[i] = "." /\ \A k \in (i + 1)..Len(name) : name[k] # "."
    ELSE 0
PathSuffix(path) ==
    LET name == BaseName(path)
        i == LastDot(name)
    IN  IF 1 < i /\ i < Len(name) THEN From(name, i) ELSE <<>>

\* the mutation: the glob of the ending as it is written
MatchesEndingGlob_cased(path, ending) ==
    LET name == BaseName(path)
    IN  /\ Len(name) >= Len(ending) + 1
        /\ From(name, Len(name) - Len(ending)) = <<".">> \o ending

\* the glob of _ending_globs: the ending in either case of each letter
MatchesEndingGlob(path, ending) ==
    LET name == BaseName(path)
    IN  /\ Len(name) >= Len(ending) + 1
        /\ lower(From(name, Len(name) - Len(ending))) = <<".">> \o ending

\* the actions of the given files, in the given order
RECURSIVE addActions(_)
addActions(files) ==
    IF files = <<>> THEN <<>>
    ELSE <<IndexingAction("A", files[1])>> \o addActions(Tail(files))

\* yield_all_paths: for every ending, in sorted order, the sorted matches
RECURSIVE yieldEndings(_, _)
yieldEndings(onDisk, endings) ==
    IF endings = {} THEN <<>>
    ELSE LET e == CHOOSE x \in endings : \A y \in endings \ {x} : StrLess(x, y)
         IN  addActions(sortedPaths({f \in onDisk : MatchesEndingGlob(PathChars[f], e)}))
             \o yieldEndings(onDisk, endings \ {e})

\* what yield_all_paths yields when every file is there; the files that
\* are there come in the same order
ScanOrder == yieldEndings(AllFiles, all_endings)

yield_all_paths(onDisk) ==
    LET there(ia) == ia.path \in onDisk
    IN  SelectSeq(ScanOrder, there)

\* the mutation: the decisions are not applied
apply_decisions_none(actions, decisions) == actions

apply_decisions(actions, decisions) ==
    LET ignored == decisionsGet(decisions, IGNORE)
        kept(ia) == ia.path \notin ignored
    IN  SelectSeq(actions, kept)

\* the files that keep_valid_endings keeps
ValidEndings == {f \in AllFiles : lstripDots(PathSuffix(PathChars[f])) \in all_endings}

keep_valid_endings(actions) ==
    LET valid(ia) == ia.path \in ValidEndings
    IN  SelectSeq(actions, valid)

\* the files of which is_in_gitdir is true
InGitdir == {f \in AllFiles : is_in_gitdir(PathChars[f])}

notInGitdir(actions) ==
    LET outside(ia) == ia.path \notin InGitdir
    IN  SelectSeq(actions, outside)

yield_actions(onDisk, decisions) ==
    apply_decisions(notInGitdir(yield_all_paths(onDisk)), decisions)

\* the mutation: the endings are not looked at
apply_all_filters_anyEnding(all_actions, decisions) ==
    apply_decisions(notInGitdir(all_actions), decisions)

apply_all_filters(all_actions, decisions) ==
    apply_decisions(keep_valid_endings(notInGitdir(all_actions)), decisions)

(***************************************************************************)
(* git.py.  A tree gives every file its content, 0 where the file is not   *)
(* there.  A commit is what rev-parse prints for it (rev), with its number *)
(* and its tree; StoredState keeps a commit as it was printed.             *)
(***************************************************************************)
EmptyTree == [f \in TreeFiles |-> 0]

Commit(rev, n, tree) == [rev |-> rev, n |-> n, tree |-> tree]

\* current_commit: 'initial' while HEAD is not a revision
current_commit(head) ==
    IF head.n = 0 THEN Commit("initial", 0, EmptyTree) ELSE Commit("hash", head.n, head.tree)

GitOrder == gitSorted(TreeFiles)

RECURSIVE parse_difftree(_, _, _)
parse_difftree(files, old, new) ==
    IF files = <<>> THEN <<>>
    ELSE LET f == files[1]
             action == IF old[f] = 0 THEN "A" ELSE IF new[f] = 0 THEN "D" ELSE "M"
         IN  (IF old[f] # new[f] THEN <<IndexingAction(action, f)>> ELSE <<>>)
             \o parse_difftree(Tail(files), old, new)

\* git diff-tree -r --name-status of the commit and HEAD
git_difftree(commit, head) == parse_difftree(GitOrder, commit.tree, head.tree)

\* the two letters of a line of git status --porcelain=1, stripped as
\* line.strip() and line.split(None, 1) leave them
StatusCode(h, i, w) ==
    LET X == IF h = i THEN " " ELSE IF h = 0 THEN "A" ELSE IF i = 0 THEN "D" ELSE "M"
        Y == IF i = 0 \/ w = i THEN " " ELSE IF w = 0 THEN "D" ELSE "M"
        nonSpace(c) == c # " "
    IN  SelectSeq(<<X, Y>>, nonSpace)

RECURSIVE statusStaged(_, _, _, _)
statusStaged(files, tree, gitIndex, worktree) ==
    IF files = <<>> THEN <<>>
    ELSE LET f == files[1]
             action == StatusCode(tree[f], gitIndex[f], worktree[f])
         IN  (IF action = <<"M">> \/ action = <<"A">>
              THEN <<IndexingAction(action[1], f)>> ELSE <<>>)
             \o statusStaged(Tail(files), tree, gitIndex, worktree)

RECURSIVE statusUntracked(_, _, _)
statusUntracked(files, gitIndex, worktree) ==
    IF files = <<>> THEN <<>>
    ELSE LET f == files[1]
         IN  (IF gitIndex[f] = 0 /\ worktree[f] # 0
              THEN <<IndexingAction("??", f)>> ELSE <<>>)
             \o statusUntracked(Tail(files), gitIndex, worktree)

git_status(head, gitIndex, worktree) ==
    [staged |-> statusStaged(GitOrder, head.tree, gitIndex, worktree),
     untracked |-> statusUntracked(GitOrder, gitIndex, worktree)]

(***************************************************************************)
(* search.py: the indexing engine.                                         *)
(***************************************************************************)
\* the mutation: the 'initial' commit is taken for a commit
selectFull_noInitial(full, use_git, schema_version, last_indexed_commit) ==
    IF full THEN TRUE
    ELSE IF schema_version = None THEN TRUE
    ELSE IF Get(schema_version) # SCHEMA_VERSION THEN TRUE
    ELSE IF ~use_git THEN TRUE
    ELSE last_indexed_commit = None \/ Get(last_indexed_commit).rev = ""

\* lines 33-49 of index_data: whether the run is a full one
selectFull(full, use_git, schema_version, last_indexed_commit) ==
    IF full THEN TRUE
    ELSE IF schema_version = None THEN TRUE
    ELSE IF Get(schema_version) # SCHEMA_VERSION THEN TRUE
    ELSE IF ~use_git THEN TRUE
    ELSE \/ last_indexed_commit = None
         \/ Get(last_indexed_commit).rev = ""
         \/ Get(last_indexed_commit).rev = "initial"

\* parse(ia.path, conf.paths.data) of every file
ParsedFile == [f \in AllFiles |-> parse(PathChars[f], DataRoot)]

\* the files that rglob finds
FilesOnDisk(worktree) == {f \in TreeFiles : worktree[f] # 0} \cup {GitDirFile}

\* lines 96-98: '??' becomes 'A'
RECURSIVE untrackedToAdd(_)
untrackedToAdd(untracked) ==
    IF untracked = <<>> THEN <<>>
    ELSE <<IndexingAction("A", untracked[1].path)>> \o untrackedToAdd(Tail(untracked))

\* lines 70-100 of _find_papers_to_index
findActions(full, conf, decisions, commit, head, gitIndex, worktree) ==
    IF full THEN yield_actions(FilesOnDisk(worktree), decisions)
    ELSE LET actions == git_difftree(Get(commit), head)
             status == git_status(head, gitIndex, worktree)
             staged == apply_all_filters(status.staged, decisions)
             untracked == apply_all_filters(status.untracked, decisions)
             look == ~(conf.git_uncommitted = "IGNORE" /\ conf.git_untracked = "IGNORE")
             withStaged ==
                 IF look /\ conf.git_uncommitted = "ADD" THEN actions \o staged ELSE actions
             withUntracked ==
                 IF look /\ conf.git_untracked = "ADD"
                 THEN withStaged \o untrackedToAdd(untracked) ELSE withStaged
         IN  apply_all_filters(withUntracked, decisions)

\* _find_papers_to_index: the actions whose path parses
find_papers_to_index(full, conf, decisions, commit, head, gitIndex, worktree) ==
    LET parses(ia) == ParsedFile[ia.path].paper # None
    IN  SelectSeq(findActions(full, conf, decisions, commit, head, gitIndex, worktree), parses)

\* search(str(path), limit=1, fields=['path']): the documents of the path
search(docs, path) ==
    LET hit(doc) == doc.path = path
    IN  SelectSeq(docs, hit)

deduplicate(papers, docs) ==
    LET kept(ia) == ia.action # "A" \/ Len(search(docs, ia.path)) = 0
    IN  SelectSeq(papers, kept)

\* w.commit(): delete_by_term removes the documents that were in the index
\* before the writer, add_document appends
RECURSIVE writerDeletes(_)
writerDeletes(w) ==
    IF w = <<>> THEN {}
    ELSE (IF w[1].op = "delete" THEN {w[1].path} ELSE {}) \cup writerDeletes(Tail(w))

RECURSIVE writerAdds(_)
writerAdds(w) ==
    IF w = <<>> THEN <<>>
    ELSE (IF w[1].op = "add" THEN <<w[1].doc>> ELSE <<>>) \o writerAdds(Tail(w))

writerCommit(docs, w) ==
    LET stays(doc) == doc.path \notin writerDeletes(w)
    IN  SelectSeq(docs, stays) \o writerAdds(w)

\* the text that the extractor prints for a file
FileText(f, content) == <<f, content>>

(***************************************************************************)
(* The state.  call and ret are the argument and the result of the pure    *)
(* function a specification applies.                                       *)
(***************************************************************************)
VARIABLES call, ret

fnVars == <<call, ret>>

(***************************************************************************)
(* The state of an installation: the configuration, the files that         *)
(* StoredState, Decisions and AllCategories keep, the index on disk, the   *)
(* git repository of the data root, the run of index_data that is under    *)
(* way, how the run before it ended, and the numbers of the runs and of    *)
(* the user's changes so far.                                              *)
(***************************************************************************)
VARIABLES conf, storedstate, decisionsFile, categoriesFile, ix,
          head, gitIndex, worktree, run, prev, used

engineVars == <<conf, storedstate, decisionsFile, categoriesFile, ix,
                head, gitIndex, worktree, run, prev, used>>
vars == <<call, ret, conf, storedstate, decisionsFile, categoriesFile, ix,
          head, gitIndex, worktree, run, prev, used>>

\* Conf: use_git is False and both policies are WARN unless configured
DefaultConf == [use_git |-> FALSE, git_uncommitted |-> "WARN", git_untracked |-> "WARN"]
\* the configurations of the model: WARN and IGNORE differ in what is
\* printed only
Confs ==
    {DefaultConf}
    \cup [use_git : {TRUE}, git_uncommitted : GitNew \ {"IGNORE"},
          git_untracked : GitNew \ {"WARN"}]

\* no run under way; registry is what all_categories.json held when the
\* run started, kept for what is said about the file across a run
IdleRun ==
    [pc |-> "idle", full_arg |-> FALSE, full |-> FALSE, commit |-> None,
     decisions |-> {}, found |-> <<>>, papers |-> <<>>, too_slow |-> {},
     all_categories |-> {}, i |-> 1, w |-> <<>>, body |-> None, committed |-> FALSE,
     registry |-> {}]

NoPrev == [outcome |-> "none", incremental |-> FALSE, adds |-> {}]

\* a new installation: nothing stored, no index and no run so far
NotRunYet ==
    /\ storedstate = [schema_version |-> None, last_indexed_commit |-> None]
    /\ decisionsFile = {}
    /\ categoriesFile = {}
    /\ ix = None
    /\ run = IdleRun
    /\ prev = NoPrev
    /\ used = [runs |-> 0, changes |-> 0]

\* a data root with the files that are no papers, and no commit
NoPapers ==
    /\ head = [n |-> 0, tree |-> EmptyTree]
    /\ gitIndex = EmptyTree
    /\ worktree = [f \in TreeFiles |-> IF f \in DynFiles THEN 0 ELSE 1]

AtRest == NotRunYet /\ NoPapers

(***************************************************************************)
(* File names for parse and generate, put together from tokens: an         *)
(* optional number, author tokens, a separator, title segments, flags and  *)
(* a year.                                                                 *)
(***************************************************************************)
MaxAuthors == 2
MaxSegments == 2

SeqsUpTo(S, n) == UNION {[1..k -> S] : k \in 0..n}

AuthorTokens == {Chars("Cho"), Chars("etAl"), Chars("2a1")}
SegmentTokens == {Chars("Deep"), Chars("ACore"), Chars("The"), Chars("XRay"),
                  Chars("Booking"), Chars("AAACo")}
NumberTokens == {None, Some(Chars("05"))}
SeparatorTokens == {SEPARATOR, Chars("_"), Chars("_-_B_-_")}
FlagTokens == {<<>>, <<Chars("book"), Chars("thesis")>>}
YearTokens == {Chars("2021"), Chars("0012"), <<>>}
TagTokens == {<<>>, <<Chars("nlp")>>}

\* what keeps parse from returning a Paper, counted per part of the name
Defects(f) ==
    (IF f.sep # SEPARATOR THEN 1 ELSE 0)
    + (IF f.year # Chars("2021") THEN 1 ELSE 0)
    + (IF f.authors = <<>> \/ \E i \in 1..Len(f.authors) : ~MatchesName(f.authors[i])
       THEN 1 ELSE 0)

\* the names with no such part, and the names with one, which carry neither
\* flags nor tags
FileSpecs ==
    {f \in [number : NumberTokens,
            authors : SeqsUpTo(AuthorTokens, MaxAuthors),
            sep : SeparatorTokens,
            segments : SeqsUpTo(SegmentTokens, MaxSegments) \ {<<>>},
            flags : FlagTokens,
            year : YearTokens,
            tags : TagTokens] :
        \/ Defects(f) = 0
        \/ Defects(f) = 1 /\ f.flags = <<>> /\ f.tags = <<>>}

\* the path that a file specification spells, under the data root
PathOf(f) ==
    pathJoinAll(<<DataRoot>> \o f.tags \o
        << (IF f.number = None THEN <<>> ELSE Get(f.number) \o <<"_">>)
           \o join(<<"_">>, f.authors) \o f.sep \o join(<<"_">>, f.segments)
           \o generateFlags(f.flags)
           \o (IF f.year = <<>> THEN <<>> ELSE <<"_">> \o f.year)
           \o Chars(".pdf") >>)

ParseInit ==
    /\ conf = DefaultConf /\ AtRest
    /\ \E f \in FileSpecs : call = [fn |-> "parse", spec |-> f, path |-> PathOf(f)]
    /\ ret = [parsed |-> None, generated |-> None]

\* paper, error = parse(Path(path), root)
DoParse ==
    /\ call.fn = "parse"
    /\ ret.parsed = None
    /\ ret' = [ret EXCEPT !.parsed = Some(parse(call.path, DataRoot))]
    /\ UNCHANGED <<call, engineVars>>

\* out = generate(paper, root), as test_parse_generate calls it
DoGenerate ==
    /\ call.fn = "parse"
    /\ ret.parsed # None
    /\ Get(ret.parsed).paper # None
    /\ ret.generated = None
    /\ ret' = [ret EXCEPT !.generated =
                  Some(generate(Get(Get(ret.parsed).paper), Some(DataRoot), Chars("pdf")))]
    /\ UNCHANGED <<call, engineVars>>

ParseNext == DoParse \/ DoGenerate

SpecParse == ParseInit /\ [][ParseNext]_vars

(***************************************************************************)
(* BibtexKey round trips: keys put together from an author, a year and a   *)
(* word over a small alphabet.                                             *)
(***************************************************************************)
MaxWordLen == 6

KeyAuthors == {Chars("a"), Chars("ab"), Chars("a-b"), Chars("-")}
KeyYears == {1000, 2021, 9999}
\* [a-z].* : a letter, then letters, digits and hyphens
KeyWords ==
    {w \in UNION {[1..k -> {"b", "1", "-"}] : k \in 1..MaxWordLen} : w[1] = "b"}

BibtexInit ==
    /\ conf = DefaultConf /\ AtRest
    /\ \E a \in KeyAuthors, y \in KeyYears, w \in KeyWords :
           call = [fn |-> "bibtex", key |-> BibtexKey(a, y, w)]
    /\ ret = [str |-> None, parsed |-> None]

\* str(bibtex)
DoBibtexStr ==
    /\ call.fn = "bibtex"
    /\ ret.str = None
    /\ ret' = [ret EXCEPT !.str = Some(BibtexKey_str(call.key))]
    /\ UNCHANGED <<call, engineVars>>

\* BibtexKey.parse(inp)
DoBibtexParse ==
    /\ call.fn = "bibtex"
    /\ ret.str # None
    /\ ret.parsed = None
    /\ ret' = [ret EXCEPT !.parsed = Some(BibtexKey_parse(Get(ret.str)))]
    /\ UNCHANGED <<call, engineVars>>

BibtexNext == DoBibtexStr \/ DoBibtexParse

SpecBibtex == BibtexInit /\ [][BibtexNext]_vars

(***************************************************************************)
(* search.py: remove_prefixes.  test_extraction.py imports it from         *)
(* refpapers.search and states three of its results; the function itself   *)
(* is not in search.py, and is modelled from the specification: it         *)
(* discards every candidate that is a strict prefix of another.            *)
(***************************************************************************)
IsPrefix(s, t) == Len(s) <= Len(t) /\ Upto(t, Len(s)) = s
IsStrictPrefix(s, t) == IsPrefix(s, t) /\ s # t

\* the mutation: a candidate counts as a prefix of itself
remove_prefixes_nonstrict(ids) == {s \in ids : ~\E t \in ids : IsPrefix(s, t)}

remove_prefixes(ids) == {s \in ids : ~\E t \in ids : IsStrictPrefix(s, t)}

MaxIdLen == 3
MaxIds == 3

IdStrings == UNION {[1..k -> {"a", "b"}] : k \in 1..MaxIdLen}

\* the inputs of test_remove_prefixes, with the results it expects
PrefixTests ==
    { [inp |-> {Chars("aaaa"), Chars("aaa"), Chars("aaaaa"), Chars("baaa")},
       expected |-> {Chars("aaaaa"), Chars("baaa")}],
      [inp |-> {Chars("10.1145/3299869.3314036"), Chars("10.1145/3299869")},
       expected |-> {Chars("10.1145/3299869.3314036")}],
      [inp |-> {Chars("1404.7828"), Chars("1404.7828v4")},
       expected |-> {Chars("1404.7828v4")}] }

PrefixInputs ==
    {ids \in SUBSET IdStrings : Cardinality(ids) <= MaxIds}
    \cup {t.inp : t \in PrefixTests}

PrefixInit ==
    /\ conf = DefaultConf /\ AtRest
    /\ \E ids \in PrefixInputs : call = [fn |-> "remove_prefixes", ids |-> ids]
    /\ ret = None

\* result = remove_prefixes(inp)
DoRemovePrefixes ==
    /\ call.fn = "remove_prefixes"
    /\ ret = None
    /\ ret' = Some(remove_prefixes(call.ids))
    /\ UNCHANGED <<call, engineVars>>

PrefixNext == DoRemovePrefixes

SpecPrefix == PrefixInit /\ [][PrefixNext]_vars

(***************************************************************************)
(* search.py: RE_DOI, RE_ARXIV, RE_ARXIV_PREFIX and                        *)
(* extract_ids_from_fulltext.  Every repetition of the expressions is      *)
(* followed by something that none of its own characters can start, or by  *)
(* optional parts only, so the greedy match is the match.                  *)
(***************************************************************************)
\* the class \s, and the class [0-9A-Z] under IGNORECASE
SpaceSet == {" ", "\t", "\n"}
AlnumSet == DigitSet \cup UpperSet \cup LowerSet

\* whether the lower-case literal pat occurs in s at position i, whatever the case
IMatchAt(s, i, pat) ==
    /\ i >= 1
    /\ i + Len(pat) - 1 <= Len(s)
    /\ \A k \in 1..Len(pat) : ToLower(s[i + k - 1]) = pat[k]

\* the position after the longest run of characters of cls that starts at i
SpanEnd(s, i, cls) ==
    CHOOSE j \in i..(Len(s) + 1) :
        /\ j = Len(s) + 1 \/ s[j] \notin cls
        /\ \A k \in i..(j - 1) : s[k] \in cls

\* whether s has c at position i
CharAt(s, i, c) == i >= 1 /\ i <= Len(s) /\ s[i] = c
InClassAt(s, i, cls) == i >= 1 /\ i <= Len(s) /\ s[i] \in cls

\* RE_ARXIV at position i: the position after the match, or None
RE_ARXIV_match(s, i) ==
    IF ~IMatchAt(s, i, Chars("arxiv:")) THEN None
    ELSE LET a == SpanEnd(s, i + 6, SpaceSet)
         IN IF ~(Digits4At(s, a) /\ CharAt(s, a + 4, ".") /\ Digits4At(s, a + 5))
            THEN None
            ELSE LET c == IF InClassAt(s, a + 9, DigitSet) THEN a + 10 ELSE a + 9
                     d == IF IMatchAt(s, c, <<"v">>) /\ InClassAt(s, c + 1, DigitSet)
                          THEN SpanEnd(s, c + 1, DigitSet)
                          ELSE c
                 IN Some(d)

\* RE_ARXIV.findall(s), from position i on: the matches, not overlapping
RECURSIVE RE_ARXIV_findall(_, _)
RE_ARXIV_findall(s, i) ==
    IF i > Len(s) THEN <<>>
    ELSE LET m == RE_ARXIV_match(s, i)
         IN IF m = None THEN RE_ARXIV_findall(s, i + 1)
            ELSE <<SubSeq(s, i, Get(m) - 1)>> \o RE_ARXIV_findall(s, Get(m))

\* RE_ARXIV_PREFIX.sub('', x)
RECURSIVE RE_ARXIV_PREFIX_sub(_)
RE_ARXIV_PREFIX_sub(x) ==
    IF x = <<>> THEN <<>>
    ELSE IF IMatchAt(x, 1, Chars("arxiv:"))
         THEN RE_ARXIV_PREFIX_sub(From(x, SpanEnd(x, 7, SpaceSet)))
    ELSE <<x[1]>> \o RE_ARXIV_PREFIX_sub(Tail(x))

\* the repetition (?:[\.-][0-9A-Z]+)* of RE_DOI from position q: the
\* position after it
RECURSIVE doiSuffixEnd(_, _)
doiSuffixEnd(s, q) ==
    IF InClassAt(s, q, {".", "-"}) /\ InClassAt(s, q + 1, AlnumSet)
    THEN doiSuffixEnd(s, SpanEnd(s, q + 1, AlnumSet))
    ELSE q

\* RE_DOI at position i: group 1 and the position after the match, or None
RE_DOI_match(s, i) ==
    LET j == IF IMatchAt(s, i, Chars("https://")) THEN i + 8
             ELSE IF IMatchAt(s, i, Chars("info:")) THEN i + 5
             ELSE i
        k == SpanEnd(s, j, SpaceSet)
    IN IF ~IMatchAt(s, k, Chars("doi")) THEN None
       ELSE LET l == IF IMatchAt(s, k + 3, Chars(".org")) THEN k + 7 ELSE k + 3
                m == IF CharAt(s, l, "/") THEN l + 1 ELSE l
                n == IF CharAt(s, m, ":") THEN m + 1 ELSE m
                g == SpanEnd(s, n, SpaceSet)
            IN IF ~(MatchAt(s, g, Chars("10.")) /\ Digits4At(s, g + 3)) THEN None
               ELSE LET p == SpanEnd(s, g + 3, DigitSet)
                        q == IF InClassAt(s, p, {".", "/"}) /\ InClassAt(s, p + 1, AlnumSet)
                             THEN SpanEnd(s, p + 1, AlnumSet)
                             ELSE p
                        e == doiSuffixEnd(s, q)
                    IN Some([group |-> SubSeq(s, g, e - 1), end |-> e])

\* RE_DOI.findall(s), from position i on: group 1 of the matches
RECURSIVE RE_DOI_findall(_, _)
RE_DOI_findall(s, i) ==
    IF i > Len(s) THEN <<>>
    ELSE LET m == RE_DOI_match(s, i)
         IN IF m = None THEN RE_DOI_findall(s, i + 1)
            ELSE <<Get(m).group>> \o RE_DOI_findall(s, Get(m).end)

SeqRange(q) == {q[i] : i \in 1..Len(q)}

\* fulltext[:n], n being None or an integer
SliceTo(s, n) ==
    IF n = None THEN s
    ELSE IF Get(n) >= Len(s) THEN s
    ELSE IF Get(n) >= 0 THEN Upto(s, Get(n))
    ELSE IF Len(s) + Get(n) > 0 THEN Upto(s, Len(s) + Get(n))
    ELSE <<>>

\* the candidates that extract_ids_from_fulltext finds in the part it reads
dois_of(fulltext, ids_chars) == SeqRange(RE_DOI_findall(SliceTo(fulltext, ids_chars), 1))
arxivs_of(fulltext, ids_chars) ==
    {RE_ARXIV_PREFIX_sub(x) : x \in SeqRange(RE_ARXIV_findall(SliceTo(fulltext, ids_chars), 1))}

\* list(ids)[0] if len(ids) == 1 else None
onlyOne(ids) == IF Cardinality(ids) = 1 THEN Some(CHOOSE x \in ids : TRUE) ELSE None

extract_ids_from_fulltext(fulltext, ids_chars) ==
    [doi |-> onlyOne(dois_of(fulltext, ids_chars)),
     arxiv |-> onlyOne(arxivs_of(fulltext, ids_chars))]

\* Texts are put together from the parts of the texts of
\* test_extract_ids_from_fulltext.
MaxFragments == 3

DefaultIdsChars == 5000

TextFragments ==
    {Chars("Foo doi: 10.1101/708206 quux"),
     Chars(" arXiv:2004.04002 also"),
     Chars(" is arXiv:2004.04002v2"),
     Chars(" doi 10.1145/3299869. 3314036 gets"),
     Chars(" doi 10.1145/3299869.3314036 is"),
     Chars(" https://doi.org/10.1101/708206-x"),
     Chars(" ARXIV: 1404.78281v"),
     Chars(" lol doi10.123 ")}

Fulltexts == {concat(fs) : fs \in UNION {[1..k -> TextFragments] : k \in 0..MaxFragments}}

\* Conf.ids_chars: None, the default, and values that cut these texts
IdsCharsValues == {None, Some(DefaultIdsChars), Some(0), Some(20), Some(40)}

\* the texts of test_extract_ids_from_fulltext
ExtractTests ==
    { Chars("Foo bar baz doi: 10.1101/708206 quux"),
      Chars("Mumble mumble stuff arXiv:2004.04002 also foo"),
      Chars("Mumble mumble stuff arXiv:2004.04002 but this version is arXiv:2004.04002v2"),
      Chars("This doi 10.1145/3299869. 3314036 gets chopped while this doi 10.1145/3299869.3314036 is whole"),
      Chars("Both a doi 10.1145/3299869.3314036 and arXiv:2004.04002 although not for the same paper lol") }

ExtractInit ==
    /\ conf = DefaultConf /\ AtRest
    /\ \E text \in Fulltexts \cup ExtractTests, n \in IdsCharsValues :
           call = [fn |-> "extract_ids_from_fulltext", fulltext |-> text, ids_chars |-> n]
    /\ ret = None

\* doi, arxiv = extract_ids_from_fulltext(body, paper.path, conf)
DoExtractIds ==
    /\ call.fn = "extract_ids_from_fulltext"
    /\ ret = None
    /\ ret' = Some(extract_ids_from_fulltext(call.fulltext, call.ids_chars))
    /\ UNCHANGED <<call, engineVars>>

ExtractNext == DoExtractIds

SpecExtract == ExtractInit /\ [][ExtractNext]_vars

(***************************************************************************)
(* qualitycheck.py: the distances between two Papers.  A distance is a     *)
(* fraction in lowest terms, so that equalities and bounds are exact; a    *)
(* result is a distance or the ZeroDivisionError that prefix_match raises. *)
(***************************************************************************)
RECURSIVE GCD(_, _)
GCD(a, b) == IF b = 0 THEN a ELSE GCD(b, a % b)

Frac(n, d) == [num |-> n \div GCD(n, d), den |-> d \div GCD(n, d)]
FZero == Frac(0, 1)
FOne == Frac(1, 1)
FAdd(x, y) == Frac(x.num * y.den + y.num * x.den, x.den * y.den)
FScale(k, x) == Frac(k * x.num, x.den)
FDiv(x, k) == Frac(x.num, x.den * k)
FLeq(x, y) == x.num * y.den <= y.num * x.den
FMin(x, y) == IF FLeq(x, y) THEN x ELSE y

Ok(v) == [ok |-> TRUE, value |-> v]
ZeroDivisionError == [ok |-> FALSE, value |-> FZero]

MinOf(m, n) == IF m <= n THEN m ELSE n
MaxOf(m, n) == IF m >= n THEN m ELSE n

MAX_YEAR_DIFF == 10

\* str(x) of an Optional[str]
strOpt(x) == IF x = None THEN Chars("None") ELSE Get(x)

\* one character less of a string
RECURSIVE dropChars(_, _)
dropChars(s, cs) ==
    IF s = <<>> THEN <<>>
    ELSE (IF s[1] \in cs THEN <<>> ELSE <<s[1]>>) \o dropChars(Tail(s), cs)

normalize(text) == lower(dropChars(text, {" ", "-", ":"}))

\* Levenshtein.distance: the row of the table for the character ach of a,
\* from the row before it
RECURSIVE levRow(_, _, _, _)
levRow(prevRow, ach, b, cur) ==
    IF Len(cur) = Len(b) + 1 THEN cur
    ELSE LET j == Len(cur)
             subst == prevRow[j] + (IF ach = b[j] THEN 0 ELSE 1)
         IN levRow(prevRow, ach, b,
                   Append(cur, MinOf(MinOf(prevRow[j + 1] + 1, cur[j] + 1), subst)))

RECURSIVE levRows(_, _, _, _)
levRows(a, b, i, prevRow) ==
    IF i > Len(a) THEN prevRow[Len(b) + 1]
    ELSE levRows(a, b, i + 1, levRow(prevRow, a[i], b, <<prevRow[1] + 1>>))

\* Levenshtein.distance(a, b, score_cutoff=k): k + 1 for a distance above k
Levenshtein_distance(a, b, score_cutoff) ==
    LET dist == levRows(a, b, 1, [j \in 1..(Len(b) + 1) |-> j - 1])
    IN IF dist > score_cutoff THEN score_cutoff + 1 ELSE dist

scaled_lev(a, b) ==
    LET max_len == MaxOf(3, MaxOf(Len(a), Len(b)) \div 3)
    IN Frac(Levenshtein_distance(a, b, max_len), max_len + 1)

\* the number of leading positions at which a and b agree
match_len(a, b) ==
    CHOOSE k \in 0..MinOf(Len(a), Len(b)) :
        /\ \A i \in 1..k : a[i] = b[i]
        /\ k = MinOf(Len(a), Len(b)) \/ a[k + 1] # b[k + 1]

prefix_match(a, b) ==
    LET min_len == MinOf(Len(a), Len(b))
    IN IF min_len = 0 THEN ZeroDivisionError
       ELSE Ok(Frac(min_len - match_len(a, b), min_len))

set_distance(a, b) ==
    LET union_size == Cardinality(a \cup b)
    IN IF union_size = 0 THEN FZero
       ELSE Frac(union_size - Cardinality(a \cap b), union_size)

\* min(lev, prefix), once prefix_match has returned or raised
minLevPrefix(lev, prefix) == IF prefix.ok THEN Ok(FMin(lev, prefix.value)) ELSE prefix

bibtex_distance(a, b) ==
    minLevPrefix(scaled_lev(BibtexKey_str(a.bibtex), BibtexKey_str(b.bibtex)),
                 prefix_match(BibtexKey_str(a.bibtex), BibtexKey_str(b.bibtex)))

arxiv_distance(a, b) ==
    IF a.arxiv = None
    THEN (IF b.arxiv = None THEN Ok(FZero) ELSE Ok(Frac(1, 2)))
    ELSE prefix_match(strOpt(a.arxiv), strOpt(b.arxiv))

doi_distance(a, b) ==
    IF a.doi = None
    THEN (IF b.doi = None THEN Ok(FZero) ELSE Ok(FOne))
    ELSE prefix_match(strOpt(a.doi), strOpt(b.doi))

noetal(authors) == SelectSeq(authors, LAMBDA author : author # Chars("etAl"))
has_etal(authors) == \E i \in 1..Len(authors) : authors[i] = Chars("etAl")

\* the weights 1, 5 and 2 over their sum
weightedAuthor(etal_match, prefix, perm) ==
    IF ~prefix.ok THEN prefix
    ELSE Ok(FDiv(FAdd(FAdd(IF etal_match THEN FZero ELSE FOne,
                           FScale(5, prefix.value)),
                      FScale(2, perm)), 8))

author_distance(a, b) ==
    weightedAuthor(has_etal(a.authors) = has_etal(b.authors),
                   prefix_match(noetal(a.authors), noetal(b.authors)),
                   set_distance(SeqRange(noetal(a.authors)), SeqRange(noetal(b.authors))))

year_distance(a, b) ==
    LET diff == IF a.year >= b.year THEN a.year - b.year ELSE b.year - a.year
        year_diff == MinOf(diff, MAX_YEAR_DIFF)
    IN Frac(year_diff * year_diff, MAX_YEAR_DIFF * MAX_YEAR_DIFF)

title_distance(a, b) ==
    minLevPrefix(scaled_lev(normalize(a.title), normalize(b.title)),
                 prefix_match(a.title, b.title))

tag_distance(a, b) == set_distance(SeqRange(a.tags), SeqRange(b.tags))

pub_type_distance(a, b) == set_distance(SeqRange(a.pub_type), SeqRange(b.pub_type))

number_distance(a, b) == IF a.number = b.number THEN FZero ELSE FOne

\* the weights 1, 3, 2, 1, 0.5, 1, 0.5, 0.5, 0.5 over their sum 10, all
\* doubled
weightedParts(bibtex, title, author, year, pub_type, tag, number, arxiv, doi) ==
    IF ~(bibtex.ok /\ title.ok /\ author.ok /\ arxiv.ok /\ doi.ok)
    THEN ZeroDivisionError
    ELSE Ok(FDiv(FAdd(FScale(2, bibtex.value),
                 FAdd(FScale(6, title.value),
                 FAdd(FScale(4, author.value),
                 FAdd(FScale(2, year),
                 FAdd(pub_type,
                 FAdd(FScale(2, tag),
                 FAdd(number,
                 FAdd(arxiv.value, doi.value)))))))), 20))

paper_distance(a, b) ==
    weightedParts(bibtex_distance(a, b), title_distance(a, b), author_distance(a, b),
                  year_distance(a, b), pub_type_distance(a, b), tag_distance(a, b),
                  number_distance(a, b), arxiv_distance(a, b), doi_distance(a, b))

(***************************************************************************)
(* search.py: the fields that _index_papers stores for a Paper, and        *)
(* result_to_paper, which makes the Paper of a search result from them.    *)
(***************************************************************************)
paper_fields(paper, doi, arxiv) ==
    [path |-> paper.path,
     bibtex |-> BibtexKey_str(paper.bibtex),
     title |-> paper.title,
     authors |-> join(Chars(", "), paper.authors),
     year |-> paper.year,
     pub_type |-> join(<<" ">>, paper.pub_type),
     tags |-> join(<<" ">>, paper.tags),
     number |-> paper.number,
     doi |-> IF doi = None \/ doi = Some(<<>>) THEN None ELSE doi,
     arxiv |-> IF arxiv = None \/ arxiv = Some(<<>>) THEN None ELSE arxiv]

result_to_paper(result) ==
    Paper(result.path,
          Get(BibtexKey_parse(result.bibtex)),
          result.title,
          split(result.authors, Chars(", ")),
          result.year,
          IF Len(result.pub_type) > 0 THEN split(result.pub_type, <<" ">>) ELSE <<>>,
          split(result.tags, <<" ">>),
          result.number,
          result.doi,
          result.arxiv)

\* The Papers of the quality check: files that parse, indexed with the
\* identifiers found in their texts.
CheckFiles ==
    {Chars("r/Cho_-_Deep_2021.pdf"),
     Chars("r/nlp/Lee_-_ACore_2020.pdf"),
     Chars("r/nlp/Cho_etAl_-_Deep_2021.pdf"),
     Chars("r/etAl_-_Deep_2021.pdf"),
     Chars("r/05_Cho_Lee_-_DeepNets_book_2009.pdf"),
     Chars("r/nlp/Lee_Cho_-_ACoreSet_2020.djvu")}

CheckIds ==
    {[doi |-> None, arxiv |-> None],
     [doi |-> Some(Chars("10.1101/708206")), arxiv |-> None],
     [doi |-> None, arxiv |-> Some(Chars("2004.04002"))],
     [doi |-> Some(Chars("10.1101/708206")), arxiv |-> Some(Chars("2004.04002v2"))]}

CheckPapers ==
    {result_to_paper(paper_fields(Get(parse(f, DataRoot).paper), ids.doi, ids.arxiv)) :
        f \in CheckFiles, ids \in CheckIds}

DistanceInit ==
    /\ conf = DefaultConf /\ AtRest
    /\ \E a \in CheckPapers, b \in CheckPapers : call = [fn |-> "paper_distance", a |-> a, b |-> b]
    /\ ret = None

\* dist = paper_distance(a, b)
DoPaperDistance ==
    /\ call.fn = "paper_distance"
    /\ ret = None
    /\ ret' = Some(paper_distance(call.a, call.b))
    /\ UNCHANGED <<call, engineVars>>

DistanceNext == DoPaperDistance

SpecDistance == DistanceInit /\ [][DistanceNext]_vars

(***************************************************************************)
(* qualitycheck.py: find_close_matches and all_duplicates.  What a call    *)
(* does is a value it returns or the exception it raises.  The results of  *)
(* the searches of the index are given: retrieved is the results of the    *)
(* queries of more_like_paper, one after the other.                        *)
(***************************************************************************)
Returned(v) == [raised |-> "", value |-> v]
Raised(e) == [raised |-> e, value |-> <<>>]

\* the fields of a Paper that parse and result_to_paper fill with lists
ListFields == {"authors", "pub_type", "tags"}

\* Paper.__hash__, which dataclass(unsafe_hash=True) makes from the tuple of
\* the fields: a list has no hash
Paper_hash(paper) ==
    IF ListFields \cap DOMAIN paper # {} THEN Raised("TypeError") ELSE Returned(paper)

\* the loop of more_like_paper over the results, out being the set so far
RECURSIVE more_like_loop(_, _, _, _)
more_like_loop(paper, results, include_exact, out) ==
    IF results = <<>> THEN Returned(out)
    ELSE IF ~include_exact /\ results[1] = paper
         THEN more_like_loop(paper, Tail(results), include_exact, out)
    ELSE IF Paper_hash(results[1]).raised # "" THEN Paper_hash(results[1])
    ELSE more_like_loop(paper, Tail(results), include_exact, out \cup {results[1]})

more_like_paper(paper, retrieved, include_exact) ==
    more_like_loop(paper, retrieved, include_exact, {})

\* sorted(candidates_with_distance, key=lambda x: x[0]) of the candidates of
\* a set: ascending distances, the order among equal ones being that of the
\* set
sortedByDistance(reference, candidates) ==
    CHOOSE q \in [1..Cardinality(candidates) -> [dist : {paper_distance(reference, c).value : c \in candidates},
                                                  candidate : candidates]] :
        /\ \A c \in candidates : \E i \in 1..Len(q) : q[i].candidate = c
        /\ \A i \in 1..Len(q) : q[i].dist = paper_distance(reference, q[i].candidate).value
        /\ \A i \in 1..(Len(q) - 1) : FLeq(q[i].dist, q[i + 1].dist)

\* find_close_matches from the candidates on: more is what more_like_paper
\* returned or raised
closeMatches(reference, more, limit, max_dist) ==
    IF more.raised # "" THEN more
    ELSE IF \E c \in more.value : ~paper_distance(reference, c).ok
         THEN Raised("ZeroDivisionError")
    ELSE LET candidates_with_distance == sortedByDistance(reference, more.value)
         IN Returned(SelectSeq(SubSeq(candidates_with_distance, 1,
                                      MinOf(limit, Cardinality(more.value))),
                               LAMBDA x : FLeq(x.dist, max_dist)))

find_close_matches(query, retrieved, limit, max_dist, include_exact) ==
    closeMatches(query, more_like_paper(query, retrieved, include_exact), limit, max_dist)

\* the attributes of Decisions that name a relation
Decisions_relations == {"IGNORE", "FULLTEXT_TOO_SLOW"}

\* Paper.__lt__: by str(bibtex), then by str(self), which starts with the path
Paper_lt(a, b) ==
    \/ StrLess(BibtexKey_str(a.bibtex), BibtexKey_str(b.bibtex))
    \/ /\ BibtexKey_str(a.bibtex) = BibtexKey_str(b.bibtex)
       /\ StrLess(a.path, b.path)

\* tuple(sorted([cursor_paper, candidate]))
sortedPair(a, b) == IF Paper_lt(b, a) THEN <<b, a>> ELSE <<a, b>>

\* the loop of all_duplicates over the close matches of one cursor; all_dupes
\* is the dict so far, as a sequence of [pair, dist] in the order of insertion
RECURSIVE recordDupes(_, _, _, _)
recordDupes(cursor_paper, dupes, ignored, all_dupes) ==
    IF dupes = <<>> THEN Returned(all_dupes)
    ELSE LET candidate == dupes[1].candidate
             pair == sortedPair(cursor_paper, candidate)
             rest == Tail(dupes)
         IN IF <<cursor_paper.path, candidate.path>> \in ignored
               \/ <<candidate.path, cursor_paper.path>> \in ignored
            THEN recordDupes(cursor_paper, rest, ignored, all_dupes)
            ELSE IF Paper_hash(pair[1]).raised # "" THEN Paper_hash(pair[1])
            ELSE IF \E i \in 1..Len(all_dupes) : all_dupes[i].pair = pair
                 THEN recordDupes(cursor_paper, rest, ignored,
                                  [i \in 1..Len(all_dupes) |->
                                      IF all_dupes[i].pair = pair
                                      THEN [pair |-> pair, dist |-> dupes[1].dist]
                                      ELSE all_dupes[i]])
            ELSE recordDupes(cursor_paper, rest, ignored,
                             Append(all_dupes, [pair |-> pair, dist |-> dupes[1].dist]))

\* the loop of all_duplicates over the Papers of the index; retrieved gives
\* the results of the searches for each of them
RECURSIVE scanDupes(_, _, _, _)
RECURSIVE scanFound(_, _, _, _, _)
RECURSIVE scanRecorded(_, _, _, _)

scanDupes(cursors, retrieved, ignored, all_dupes) ==
    IF cursors = <<>> THEN Returned(all_dupes)
    ELSE scanFound(cursors, retrieved, ignored, all_dupes,
                   find_close_matches(cursors[1], retrieved[1], 10, Frac(35, 100), FALSE))

\* from the close matches of the first cursor on
scanFound(cursors, retrieved, ignored, all_dupes, found) ==
    IF found.raised # "" THEN found
    ELSE scanRecorded(cursors, retrieved, ignored,
                      recordDupes(cursors[1], found.value, ignored, all_dupes))

\* from the pairs of the first cursor on
scanRecorded(cursors, retrieved, ignored, recorded) ==
    IF recorded.raised # "" THEN recorded
    ELSE scanDupes(Tail(cursors), Tail(retrieved), ignored, recorded.value)

\* sorted(all_dupes.items(), key=lambda tpl: tpl[1])
RECURSIVE insertDupe(_, _)
insertDupe(sorted_dupes, d) ==
    IF sorted_dupes = <<>> THEN <<d>>
    ELSE IF FLeq(sorted_dupes[1].dist, d.dist)
         THEN <<sorted_dupes[1]>> \o insertDupe(Tail(sorted_dupes), d)
    ELSE <<d>> \o sorted_dupes

RECURSIVE sortDupes(_)
sortDupes(all_dupes) ==
    IF all_dupes = <<>> THEN <<>>
    ELSE insertDupe(sortDupes(Upto(all_dupes, Len(all_dupes) - 1)), all_dupes[Len(all_dupes)])

\* the pairs in the order in which all_duplicates shows them
sortedDupes(scanned) ==
    IF scanned.raised # "" THEN scanned ELSE Returned(sortDupes(scanned.value))

\* the decisions that all_duplicates reads as ignored pairs
ignoredPairs(decisions) ==
    {<<x.arg1, x.arg2>> : x \in {d \in decisions : d.relation = "IGNORE_DUPLICATE"}}

\* all_duplicates, up to the list of the pairs that it shows: the index as
\* the Papers of its documents, the decisions with two arguments
all_duplicates(indexed, retrieved, decisions) ==
    IF "IGNORE_DUPLICATE" \notin Decisions_relations THEN Raised("AttributeError")
    ELSE sortedDupes(scanDupes(indexed, retrieved, ignoredPairs(decisions), <<>>))

MaxRetrieved == 3

\* the Papers of an index whose texts name no identifier
MatchPapers == {p \in CheckPapers : p.doi = None /\ p.arxiv = None}

Limits == {1, 2, 10}

MatchesInit ==
    /\ conf = DefaultConf /\ AtRest
    /\ \E query \in MatchPapers, retrieved \in SeqsUpTo(MatchPapers, MaxRetrieved),
          limit \in Limits, include_exact \in BOOLEAN :
           call = [fn |-> "find_close_matches", query |-> query, retrieved |-> retrieved,
                   limit |-> limit, max_dist |-> Frac(35, 100), include_exact |-> include_exact]
    /\ ret = None

\* _, dupes = find_close_matches(query, conf, limit, max_dist, include_exact)
DoFindCloseMatches ==
    /\ call.fn = "find_close_matches"
    /\ ret = None
    /\ ret' = Some(find_close_matches(call.query, call.retrieved, call.limit,
                                      call.max_dist, call.include_exact))
    /\ UNCHANGED <<call, engineVars>>

MatchesNext == DoFindCloseMatches

SpecMatches == MatchesInit /\ [][MatchesNext]_vars

\* all_duplicates on an index of a few Papers.  For each of them the
\* searches retrieve some of the Papers of the index, in the order of the
\* index; the decisions are those on the first two Papers.
MaxIndexed == 2

\* Decision(relation, arg1, arg2)
PairDecision(relation, arg1, arg2) == [relation |-> relation, arg1 |-> arg1, arg2 |-> arg2]

SubSeqsOf(q) == {SelectSeq(q, LAMBDA x : x \in S) : S \in SUBSET SeqRange(q)}

PairDecisions(indexed) ==
    IF Len(indexed) < 2 THEN {{}}
    ELSE {{},
          {PairDecision("IGNORE_DUPLICATE", indexed[1].path, indexed[2].path)},
          {PairDecision("IGNORE_DUPLICATE", indexed[2].path, indexed[1].path)}}

DuplicatesInit ==
    /\ conf = DefaultConf /\ AtRest
    /\ \E indexed \in SeqsUpTo(MatchPapers, MaxIndexed) :
         \E retrieved \in [1..Len(indexed) -> SubSeqsOf(indexed)],
            decisions \in PairDecisions(indexed) :
           call = [fn |-> "all_duplicates", indexed |-> indexed, retrieved |-> retrieved,
                   decisions |-> decisions]
    /\ ret = None

\* all_duplicates(conf, decisions)
DoAllDuplicates ==
    /\ call.fn = "all_duplicates"
    /\ ret = None
    /\ ret' = Some(all_duplicates(call.indexed, call.retrieved, call.decisions))
    /\ UNCHANGED <<call, engineVars>>

DuplicatesNext == DoAllDuplicates

SpecDuplicates == DuplicatesInit /\ [][DuplicatesNext]_vars

(***************************************************************************)
(* search.py: a Paper that parse returned is stored as the fields of a     *)
(* document, and a search result with these fields is made a Paper again.  *)
(***************************************************************************)
\* result_to_paper of the stored fields, where BibtexKey.parse can raise
storedPaper(fields) ==
    IF BibtexKey_parse(fields.bibtex) = None THEN Raised("ValueError")
    ELSE Returned(result_to_paper(fields))

\* the names of FileSpecs from which parse returns a Paper
StoreSpecs == {f \in FileSpecs : Defects(f) = 0 /\ parse(PathOf(f), DataRoot).paper # None}

StoreIds ==
    {[doi |-> None, arxiv |-> None],
     [doi |-> Some(Chars("10.1101/708206")), arxiv |-> Some(Chars("2004.04002v2"))]}

StoreInit ==
    /\ conf = DefaultConf /\ AtRest
    /\ \E f \in StoreSpecs, ids \in StoreIds :
           call = [fn |-> "result_to_paper", paper |-> Get(parse(PathOf(f), DataRoot).paper),
                   doi |-> ids.doi, arxiv |-> ids.arxiv]
    /\ ret = None

\* w.add_document(**fields) of lines 154-171, then result_to_paper(result)
\* of the hit that a search returns for the document
DoStoreAndLoad ==
    /\ call.fn = "result_to_paper"
    /\ ret = None
    /\ ret' = Some(storedPaper(paper_fields(call.paper, call.doi, call.arxiv)))
    /\ UNCHANGED <<call, engineVars>>

StoreNext == DoStoreAndLoad

SpecStore == StoreInit /\ [][StoreNext]_vars

(***************************************************************************)
(* rename.py: AutoRenamer.rename from the point where the new path has     *)
(* been generated (line 216).  call holds the file to rename, the path     *)
(* that _generate_path made and the files as they were; ret holds where    *)
(* rename is, the path it is about to use, the files as they are, and what *)
(* rename returns.  A file is its content, NoFile at a path where there is *)
(* none.  The user's answers are chosen at each prompt.                    *)
(***************************************************************************)
\* the file in the inbox
InboxFile == "in/x.pdf"

\* the paths that are generated or typed: two that parse and one that
\* does not
RenamePaths == {PaperA, PaperB, NotesFile}

\* what the user types at prompt_edit_path: a path, or nothing
EditAnswers == RenamePaths \cup {""}

\* what question returns: a choice, or None for an answer that is none
Choices == {Some("yes"), Some("no"), Some("edit"), None}

\* the content of the file in the inbox, and of a file that is there
NewContent == "new"
OldContent == "old"
NoFile == ""

RenameDisks ==
    {[f \in RenamePaths \cup {InboxFile} |->
         IF f = InboxFile THEN NewContent ELSE IF f \in there THEN OldContent ELSE NoFile] :
        there \in SUBSET RenamePaths}

RenameInit ==
    /\ conf = DefaultConf /\ AtRest
    /\ \E generated \in RenamePaths, disk \in RenameDisks :
           /\ call = [fn |-> "rename", path |-> InboxFile, paper_path |-> generated,
                      disk |-> disk]
           /\ ret = [pc |-> "parse", new_path |-> generated, disk |-> disk,
                     result |-> None]

\* return None
Aborted == [ret EXCEPT !.pc = "returned", !.result = None]

\* shutil.move(path, new_path) onto a path that is no directory: os.rename
\* puts the file there, in the place of a file that was there
move(disk, path, new_path) ==
    [f \in DOMAIN disk |-> IF f = new_path THEN disk[path]
                           ELSE IF f = path THEN NoFile ELSE disk[f]]

\* lines 219-227: parse of the new path, and for a path that does not
\* parse a prompt for another, where an empty answer aborts
RenameParse ==
    /\ call.fn = "rename"
    /\ ret.pc = "parse"
    /\ IF ParsedFile[ret.new_path].paper # None
       THEN ret' = [ret EXCEPT !.pc = "exists"]
       ELSE \E answer \in EditAnswers :
                ret' = IF answer = "" THEN Aborted
                       ELSE [ret EXCEPT !.new_path = answer]
    /\ UNCHANGED <<call, engineVars>>

\* lines 229-231: the test is on paper.path, the path that was generated
RenameExists ==
    /\ call.fn = "rename"
    /\ ret.pc = "exists"
    /\ ret' = IF ret.disk[call.paper_path] # NoFile THEN Aborted
              ELSE [ret EXCEPT !.pc = "question"]
    /\ UNCHANGED <<call, engineVars>>

\* lines 233-236 and 253-254: the confirmation; 'edit' prompts for a path
\* and goes on as 'yes'
RenameQuestion ==
    /\ call.fn = "rename"
    /\ ret.pc = "question"
    /\ \E choice \in Choices :
           IF choice = Some("edit")
           THEN \E answer \in RenamePaths :
                    ret' = [ret EXCEPT !.pc = "move", !.new_path = answer]
           ELSE IF choice = Some("yes")
           THEN ret' = [ret EXCEPT !.pc = "move"]
           ELSE ret' = Aborted
    /\ UNCHANGED <<call, engineVars>>

\* lines 238-252: the directory is made and the file is moved
RenameMove ==
    /\ call.fn = "rename"
    /\ ret.pc = "move"
    /\ ret' = [ret EXCEPT !.pc = "returned",
                          !.disk = move(ret.disk, call.path, ret.new_path),
                          !.result = Some(ret.new_path)]
    /\ UNCHANGED <<call, engineVars>>

RenameNext == RenameParse \/ RenameExists \/ RenameQuestion \/ RenameMove

SpecRename == RenameInit /\ [][RenameNext]_vars

(***************************************************************************)
(* filesystem.py: the scan of the data root, on every set of the files and *)
(* of the decisions.                                                       *)
(***************************************************************************)
ScanDecisions ==
    SUBSET {Decision(IGNORE, PaperA), Decision(IGNORE, UpperFile),
            Decision(FULLTEXT_TOO_SLOW, PaperB)}

ScanInit ==
    /\ conf = DefaultConf /\ AtRest
    /\ \E onDisk \in SUBSET AllFiles, decisions \in ScanDecisions :
           call \in {[fn |-> "yield_all_paths", onDisk |-> onDisk, decisions |-> {}],
                     [fn |-> "yield_actions", onDisk |-> onDisk, decisions |-> decisions]}
    /\ ret = None

\* list(yield_all_paths(root, conf))
DoYieldAllPaths ==
    /\ call.fn = "yield_all_paths"
    /\ ret = None
    /\ ret' = Some(yield_all_paths(call.onDisk))
    /\ UNCHANGED <<call, engineVars>>

\* list(yield_actions(root, conf, decisions))
DoYieldActions ==
    /\ call.fn = "yield_actions"
    /\ ret = None
    /\ ret' = Some(yield_actions(call.onDisk, call.decisions))
    /\ UNCHANGED <<call, engineVars>>

ScanNext == DoYieldAllPaths \/ DoYieldActions

SpecScan == ScanInit /\ [][ScanNext]_vars

(***************************************************************************)
(* filesystem.py: apply_all_filters on lists of actions of every type, as  *)
(* _find_papers_to_index hands them over: the paper of an action is a Path.*)
(***************************************************************************)
MaxActions == 2

ActionTypes == {"A", "M", "D", "??"}

FilterActions ==
    UNION {[1..k -> [action : ActionTypes, path : AllFiles]] : k \in 0..MaxActions}

FilterDecisions ==
    SUBSET {Decision(IGNORE, PaperA), Decision(IGNORE, GitLikeFile),
            Decision(FULLTEXT_TOO_SLOW, PaperB)}

FilterInit ==
    /\ conf = DefaultConf /\ AtRest
    /\ \E actions \in FilterActions, decisions \in FilterDecisions :
           call = [fn |-> "apply_all_filters", actions |-> actions, decisions |-> decisions]
    /\ ret = None

\* list(apply_all_filters(actions, conf, decisions))
DoApplyAllFilters ==
    /\ call.fn = "apply_all_filters"
    /\ ret = None
    /\ ret' = Some(apply_all_filters(call.actions, call.decisions))
    /\ UNCHANGED <<call, engineVars>>

FilterNext == DoApplyAllFilters

SpecFilter == FilterInit /\ [][FilterNext]_vars

(***************************************************************************)
(* search.py: index_data, step by step.  A run reads the stored variables  *)
(* and selects its mode (StartRun), finds its papers (FindPapers), opens   *)
(* or creates the index and drops the duplicates (OpenIndex), stages one   *)
(* action after the other in the writer (IndexPaper), commits the writer   *)
(* (WriterCommit), writes the decisions and the categories, and writes the *)
(* two stored variables, each by truncating its file and printing the new  *)
(* value.  The process can stop between any two of the steps (Crash).  The *)
(* user changes the files, the repository and the decisions between runs.  *)
(***************************************************************************)
MaxRuns == 3
MaxChanges == 4

\* a data root that holds PaperA already, committed where git is used
OnePaper ==
    /\ worktree = [f \in TreeFiles |-> IF f = PaperB THEN 0 ELSE 1]
    /\ gitIndex = [f \in TreeFiles |-> IF conf.use_git /\ f = PaperA THEN 1 ELSE 0]
    /\ head = IF conf.use_git THEN [n |-> 1, tree |-> gitIndex]
              ELSE [n |-> 0, tree |-> EmptyTree]

Init ==
    /\ call = [fn |-> "index_data"]
    /\ ret = None
    /\ conf \in Confs
    /\ NotRunYet
    /\ NoPapers \/ OnePaper

\* the paths of the actions of one type
RECURSIVE pathsOf(_, _)
pathsOf(actions, action) ==
    IF actions = <<>> THEN {}
    ELSE (IF actions[1].action = action THEN {actions[1].path} ELSE {})
         \cup pathsOf(Tail(actions), action)

\* what is remembered of a run when it has ended: how it ended, and the
\* paths of its 'A' actions if it was incremental and got through its
\* indexing
Ended(outcome) ==
    LET indexed == ~run.full /\ outcome \in {"done", "after"}
    IN  [outcome |-> outcome, incremental |-> indexed,
         adds |-> IF indexed THEN pathsOf(run.found, "A") ELSE {}]

\* an exception leaves index_data and ends the process before the writer
\* has committed
Raise ==
    /\ run' = IdleRun
    /\ prev' = Ended("before")

\* index_data(full, ...), lines 33-49, with the Decisions that load_conf read
startedRun(full) ==
    LET schema == storedstate.schema_version
        readsCommit ==
            ~full /\ schema # None /\ Get(schema) = SCHEMA_VERSION /\ conf.use_git
    IN  [IdleRun EXCEPT
            !.pc = "find",
            !.full_arg = full,
            !.full = selectFull(full, conf.use_git, schema,
                                storedstate.last_indexed_commit),
            !.commit = IF readsCommit THEN storedstate.last_indexed_commit
                       ELSE None,
            !.decisions = decisionsFile,
            !.registry = categoriesFile]

StartRun(full) ==
    /\ run.pc = "idle"
    /\ used.runs < MaxRuns
    /\ used' = [used EXCEPT !.runs = used.runs + 1]
    /\ run' = startedRun(full)
    /\ UNCHANGED <<call, ret, conf, storedstate, decisionsFile, categoriesFile, ix,
                   head, gitIndex, worktree, prev>>

\* lines 51-56: _find_papers_to_index, where git_difftree raises when git
\* does not know the commit; no paper found skips _index_papers
FindPapers ==
    /\ run.pc = "find"
    /\ IF ~run.full /\ (run.commit = None \/ Get(run.commit).rev # "hash")
       THEN Raise
       ELSE LET papers == find_papers_to_index(run.full, conf, run.decisions, run.commit,
                                               head, gitIndex, worktree)
            IN  /\ run' = [run EXCEPT !.pc = IF Len(papers) = 0 THEN "post" ELSE "index",
                                      !.found = papers,
                                      !.papers = papers]
                /\ prev' = prev
    /\ UNCHANGED <<call, ret, conf, storedstate, decisionsFile, categoriesFile, ix,
                   head, gitIndex, worktree, used>>

\* the mutation: _index_papers returns without its writer
afterDeduplicate_return(papers) == "schema"

\* lines 127-132: with no paper left _index_papers returns, and index_data
\* goes on to write schema_version; with papers it takes a writer
afterDeduplicate(papers) == IF Len(papers) = 0 THEN "schema" ELSE "loop"

\* the mutation: the categories of the file are never read
categoriesOf_unread(full, file) == {}

\* _index_papers, lines 114-119: AllCategories(conf) starts with no category
\* and all_categories.read() is called on an incremental run only
categoriesOf(full, file) == IF full THEN {} ELSE file

\* _index_papers, lines 113-129: create_in leaves an empty index in the
\* directory, open_dir raises where there is no index
OpenIndex ==
    /\ run.pc = "index"
    /\ IF ~run.full /\ ix = None
       THEN Raise /\ ix' = ix
       ELSE LET papers == IF run.full THEN run.papers
                          ELSE deduplicate(run.papers, Get(ix))
            IN  /\ ix' = IF run.full THEN Some(<<>>) ELSE ix
                /\ run' = [run EXCEPT
                              !.all_categories = categoriesOf(run.full, categoriesFile),
                              !.too_slow = decisionsGet(run.decisions, FULLTEXT_TOO_SLOW),
                              !.papers = papers,
                              !.pc = afterDeduplicate(papers)]
                /\ prev' = prev
    /\ UNCHANGED <<call, ret, conf, storedstate, decisionsFile, categoriesFile,
                   head, gitIndex, worktree, used>>

\* the files whose extraction can take longer than extract_max_seconds
SlowFiles == {PaperB}

\* lines 135-175, one turn of the loop.  An 'A' of a path in too_slow
\* leaves body as it is, and line 161 raises where body is not bound yet;
\* another 'A' runs the extractor, which prints nothing for a file that is
\* not there; all_categories.add writes the file when the category is new.
IndexPaper ==
    /\ run.pc = "loop"
    /\ run.i <= Len(run.papers)
    /\ LET ia == run.papers[run.i]
           path == ia.path
           tags == Get(ParsedFile[path].paper).tags
       IN  IF ia.action = "A"
           THEN IF path \in run.too_slow /\ run.body = None
                THEN Raise /\ categoriesFile' = categoriesFile
                ELSE \E slow \in (IF path \in SlowFiles THEN BOOLEAN ELSE {FALSE}) :
                       LET extracts == path \notin run.too_slow
                           there == worktree[path] # 0
                           body == IF ~extracts THEN Get(run.body)
                                   ELSE IF there THEN FileText(path, worktree[path])
                                   ELSE <<>>
                           decisions ==
                               IF extracts /\ there /\ slow
                               THEN run.decisions \cup {Decision(FULLTEXT_TOO_SLOW, path)}
                               ELSE run.decisions
                       IN  /\ run' = [run EXCEPT
                                         !.body = Some(body),
                                         !.decisions = decisions,
                                         !.w = Append(run.w, [op |-> "add", path |-> path,
                                                              doc |-> [path |-> path,
                                                                       body |-> body]]),
                                         !.all_categories = run.all_categories \cup {tags},
                                         !.i = run.i + 1]
                           /\ categoriesFile' =
                                  IF tags \in run.all_categories THEN categoriesFile
                                  ELSE run.all_categories \cup {tags}
                           /\ prev' = prev
           ELSE /\ run' = [run EXCEPT
                              !.w = IF ia.action = "D"
                                    THEN Append(run.w, [op |-> "delete", path |-> path,
                                                        doc |-> [path |-> path,
                                                                 body |-> <<>>]])
                                    ELSE run.w,
                              !.i = run.i + 1]
                /\ categoriesFile' = categoriesFile
                /\ prev' = prev
    /\ UNCHANGED <<call, ret, conf, storedstate, decisionsFile, ix,
                   head, gitIndex, worktree, used>>

\* line 176: w.commit()
WriterCommit ==
    /\ run.pc = "loop"
    /\ run.i > Len(run.papers)
    /\ ix' = Some(writerCommit(Get(ix), run.w))
    /\ run' = [run EXCEPT !.pc = "decisions", !.committed = TRUE]
    /\ UNCHANGED <<call, ret, conf, storedstate, decisionsFile, categoriesFile,
                   head, gitIndex, worktree, prev, used>>

\* line 177: decisions.write(), which replaces the file
DecisionsWrite ==
    /\ run.pc = "decisions"
    /\ decisionsFile' = run.decisions
    /\ run' = [run EXCEPT !.pc = "categories"]
    /\ UNCHANGED <<call, ret, conf, storedstate, categoriesFile, ix,
                   head, gitIndex, worktree, prev, used>>

\* line 178: all_categories.write()
CategoriesWrite ==
    /\ run.pc = "categories"
    /\ categoriesFile' = run.all_categories
    /\ run' = [run EXCEPT !.pc = "schema"]
    /\ UNCHANGED <<call, ret, conf, storedstate, decisionsFile, ix,
                   head, gitIndex, worktree, prev, used>>

\* line 57, storedstate.write('schema_version', ...): open(path, 'w')
\* empties the file
SchemaOpen ==
    /\ run.pc = "schema"
    /\ storedstate' = [storedstate EXCEPT !.schema_version = Some("")]
    /\ run' = [run EXCEPT !.pc = "schema_print"]
    /\ UNCHANGED <<call, ret, conf, decisionsFile, categoriesFile, ix,
                   head, gitIndex, worktree, prev, used>>

\* and print puts the value into it
SchemaPrint ==
    /\ run.pc = "schema_print"
    /\ storedstate' = [storedstate EXCEPT !.schema_version = Some(SCHEMA_VERSION)]
    /\ run' = [run EXCEPT !.pc = "post"]
    /\ UNCHANGED <<call, ret, conf, decisionsFile, categoriesFile, ix,
                   head, gitIndex, worktree, prev, used>>

\* lines 59-61 with use_git: the file of last_indexed_commit is emptied
CommitOpen ==
    /\ run.pc = "post"
    /\ conf.use_git
    /\ storedstate' = [storedstate EXCEPT
                          !.last_indexed_commit = Some(Commit("", 0, EmptyTree))]
    /\ run' = [run EXCEPT !.pc = "commit_print"]
    /\ UNCHANGED <<call, ret, conf, decisionsFile, categoriesFile, ix,
                   head, gitIndex, worktree, prev, used>>

\* and current_commit is printed into it
CommitPrint ==
    /\ run.pc = "commit_print"
    /\ storedstate' = [storedstate EXCEPT
                          !.last_indexed_commit = Some(current_commit(head))]
    /\ run' = [run EXCEPT !.pc = "done"]
    /\ UNCHANGED <<call, ret, conf, decisionsFile, categoriesFile, ix,
                   head, gitIndex, worktree, prev, used>>

\* line 59 without use_git: nothing more to write
NoCommit ==
    /\ run.pc = "post"
    /\ ~conf.use_git
    /\ run' = [run EXCEPT !.pc = "done"]
    /\ UNCHANGED <<call, ret, conf, storedstate, decisionsFile, categoriesFile, ix,
                   head, gitIndex, worktree, prev, used>>

\* index_data returns
Return ==
    /\ run.pc = "done"
    /\ run' = IdleRun
    /\ prev' = Ended("done")
    /\ UNCHANGED <<call, ret, conf, storedstate, decisionsFile, categoriesFile, ix,
                   head, gitIndex, worktree, used>>

\* the process stops where it is
Crash ==
    /\ run.pc \notin {"idle", "done"}
    /\ run' = IdleRun
    /\ prev' = Ended(IF run.committed THEN "after" ELSE "before")
    /\ UNCHANGED <<call, ret, conf, storedstate, decisionsFile, categoriesFile, ix,
                   head, gitIndex, worktree, used>>

\* ---- the user, between runs ---------------------------------------------
CreateFile(f) ==
    /\ run.pc = "idle"
    /\ used.changes < MaxChanges
    /\ used' = [used EXCEPT !.changes = used.changes + 1]
    /\ worktree[f] = 0
    /\ worktree' = [worktree EXCEPT ![f] = 1]
    /\ UNCHANGED <<call, ret, conf, storedstate, decisionsFile, categoriesFile, ix,
                   head, gitIndex, run, prev>>

\* another content for the file
EditFile(f) ==
    /\ run.pc = "idle"
    /\ used.changes < MaxChanges
    /\ used' = [used EXCEPT !.changes = used.changes + 1]
    /\ f = PaperA
    /\ worktree[f] # 0
    /\ worktree' = [worktree EXCEPT ![f] = 3 - worktree[f]]
    /\ UNCHANGED <<call, ret, conf, storedstate, decisionsFile, categoriesFile, ix,
                   head, gitIndex, run, prev>>

DeleteFile(f) ==
    /\ run.pc = "idle"
    /\ used.changes < MaxChanges
    /\ used' = [used EXCEPT !.changes = used.changes + 1]
    /\ worktree[f] # 0
    /\ worktree' = [worktree EXCEPT ![f] = 0]
    /\ UNCHANGED <<call, ret, conf, storedstate, decisionsFile, categoriesFile, ix,
                   head, gitIndex, run, prev>>

\* git add: the file as it is in the working tree, there or not
GitAdd(f) ==
    /\ run.pc = "idle"
    /\ used.changes < MaxChanges
    /\ used' = [used EXCEPT !.changes = used.changes + 1]
    /\ conf.use_git
    /\ gitIndex[f] # worktree[f]
    /\ gitIndex' = [gitIndex EXCEPT ![f] = worktree[f]]
    /\ UNCHANGED <<call, ret, conf, storedstate, decisionsFile, categoriesFile, ix,
                   head, worktree, run, prev>>

\* git rm --cached: the file stays in the working tree
GitRmCached(f) ==
    /\ run.pc = "idle"
    /\ used.changes < MaxChanges
    /\ used' = [used EXCEPT !.changes = used.changes + 1]
    /\ conf.use_git
    /\ gitIndex[f] # 0
    /\ gitIndex' = [gitIndex EXCEPT ![f] = 0]
    /\ UNCHANGED <<call, ret, conf, storedstate, decisionsFile, categoriesFile, ix,
                   head, worktree, run, prev>>

GitCommit ==
    /\ run.pc = "idle"
    /\ used.changes < MaxChanges
    /\ used' = [used EXCEPT !.changes = used.changes + 1]
    /\ conf.use_git
    /\ gitIndex # head.tree
    /\ head' = [n |-> head.n + 1, tree |-> gitIndex]
    /\ UNCHANGED <<call, ret, conf, storedstate, decisionsFile, categoriesFile, ix,
                   gitIndex, worktree, run, prev>>

\* the user writes an IGNORE line into the decisions file
UserIgnore(f) ==
    /\ run.pc = "idle"
    /\ used.changes < MaxChanges
    /\ used' = [used EXCEPT !.changes = used.changes + 1]
    /\ Decision(IGNORE, f) \notin decisionsFile
    /\ decisionsFile' = decisionsFile \cup {Decision(IGNORE, f)}
    /\ UNCHANGED <<call, ret, conf, storedstate, categoriesFile, ix,
                   head, gitIndex, worktree, run, prev>>

Next ==
    \/ \E full \in BOOLEAN : StartRun(full)
    \/ FindPapers
    \/ OpenIndex
    \/ IndexPaper
    \/ WriterCommit
    \/ DecisionsWrite
    \/ CategoriesWrite
    \/ SchemaOpen
    \/ SchemaPrint
    \/ CommitOpen
    \/ CommitPrint
    \/ NoCommit
    \/ Return
    \/ Crash
    \/ \E f \in DynFiles :
           \/ CreateFile(f)
           \/ EditFile(f)
           \/ DeleteFile(f)
           \/ GitAdd(f)
           \/ GitRmCached(f)
           \/ UserIgnore(f)
    \/ GitCommit

Spec == Init /\ [][Next]_vars

\* ---- runs that are left to run ------------------------------------------
\* a step of index_data once it has been called
RunStep ==
    \/ FindPapers
    \/ OpenIndex
    \/ IndexPaper
    \/ WriterCommit
    \/ DecisionsWrite
    \/ CategoriesWrite
    \/ SchemaOpen
    \/ SchemaPrint
    \/ CommitOpen
    \/ CommitPrint
    \/ NoCommit
    \/ Return

\* `refpapers index` once more: the runs after the first MaxRuns are
\* incremental ones, which the model does not count
StartAgain ==
    /\ run.pc = "idle"
    /\ used.runs = MaxRuns
    /\ run' = startedRun(FALSE)
    /\ UNCHANGED <<call, ret, conf, storedstate, decisionsFile, categoriesFile, ix,
                   head, gitIndex, worktree, prev, used>>

\* the process is not stopped from outside
LiveNext ==
    \/ \E full \in BOOLEAN : StartRun(full)
    \/ StartAgain
    \/ RunStep
    \/ \E f \in DynFiles :
           \/ CreateFile(f)
           \/ EditFile(f)
           \/ DeleteFile(f)
           \/ GitAdd(f)
           \/ GitRmCached(f)
           \/ UserIgnore(f)
    \/ GitCommit

\* index_data is sequential code: a run that has started takes its next
\* step until it returns or raises.  Nothing makes the user change a file,
\* but there is always a later incremental run.
SpecLive == Init /\ [][LiveNext]_vars /\ WF_vars(RunStep) /\ WF_vars(StartAgain)

(***************************************************************************)
(* The claims.                                                             *)
(***************************************************************************)

\* the documents of the index on disk
Docs(index) == IF index = None THEN <<>> ELSE Get(index)

\* the number of documents of a path
Count(index, path) == Len(search(Docs(index), path))

\* ---- C1 ----------------------------------------------------------------
\* what the claim asks of an incremental run
IncrementalAsked ==
    /\ ~run.full_arg
    /\ storedstate.schema_version = Some(SCHEMA_VERSION)
    /\ conf.use_git
    /\ storedstate.last_indexed_commit # None
    /\ Get(storedstate.last_indexed_commit).rev \notin {"", "initial"}

\* C1: once index_data has selected its mode, the run is incremental if and
\* only if full was not requested, the stored schema_version is the current
\* one, use_git is set and the stored last_indexed_commit is there, is not
\* empty and is not 'initial'; it is full otherwise.
C1_ModeSelection == run.pc = "find" => (~run.full <=> IncrementalAsked)

C1_Witness == run.pc = "find" /\ ~run.full /\ head.n > Get(run.commit).n

\* ---- C2 ----------------------------------------------------------------
\* C2: when an incremental run has returned whose actions hold an 'A' of a
\* path p, and the run before it was incremental, got through its indexing
\* and held an 'A' of p too, the index holds exactly one document of p.
C2_DedupIdempotence ==
    \A p \in DynFiles :
        (/\ run.pc = "done" /\ ~run.full
         /\ p \in pathsOf(run.found, "A")
         /\ prev.incremental /\ p \in prev.adds)
        => Count(ix, p) = 1

\* ---- C3 ----------------------------------------------------------------
\* C3: in every run, full or incremental, the documents of the index on
\* disk change at the commit of the writer and at no other step, so that a
\* run that stops before the commit leaves the documents that were there.
C3_WriterAtomic == [][Docs(ix') # Docs(ix) => WriterCommit]_vars

\* ---- C4 ----------------------------------------------------------------
\* C4 as stated: a stored variable is written only in a run whose writer
\* has committed.
C4_WrittenAfterCommit == [][storedstate' # storedstate => run.committed]_vars

\* C4 as amended: a stored variable is written only when the writer of the
\* run has committed or the run has nothing to commit, no paper found or
\* every action dropped as a duplicate; schema_version is written only in a
\* run that has found a paper; so a run that stops with papers to index and
\* before the commit leaves both variables as they were.
C4_WrittenAfterIndexing ==
    [][/\ storedstate' # storedstate => (run.committed \/ Len(run.papers) = 0)
       /\ storedstate'.schema_version # storedstate.schema_version
              => Len(run.found) > 0]_vars

C4_Witness ==
    /\ run.pc = "done"
    /\ run.committed
    /\ ~run.full
    /\ storedstate.schema_version = Some(SCHEMA_VERSION)
    /\ storedstate.last_indexed_commit = Some(current_commit(head))
    /\ head.n > Get(run.commit).n

\* ---- C5 ----------------------------------------------------------------
\* the diff of the run: the commit it read against HEAD
RunDiff == git_difftree(Get(run.commit), head)

\* an incremental run has returned, and the run before it stopped after
\* the commit of its writer and before last_indexed_commit was written
Recovered == run.pc = "done" /\ ~run.full /\ prev.outcome = "after"

\* C5: then the index holds exactly one document of every path that the
\* diff adds and none of any path that it deletes, and last_indexed_commit
\* is the head commit.
C5_CrashRecovery ==
    Recovered =>
        /\ \A p \in pathsOf(RunDiff, "A") : Count(ix, p) = 1
        /\ \A p \in pathsOf(RunDiff, "D") : Count(ix, p) = 0
        /\ storedstate.last_indexed_commit = Some(current_commit(head))

\* ---- C6 ----------------------------------------------------------------
\* C6: while the decisions hold an IGNORE of a path, no step of a run, full
\* or incremental, makes the documents of the path more than they were.
C6_IgnoredNotAdded ==
    [][\A p \in AllFiles :
           Decision(IGNORE, p) \in decisionsFile => Count(ix', p) <= Count(ix, p)]_vars

C6_Witness ==
    /\ run.pc = "done"
    /\ ~run.full
    /\ conf.git_untracked = "ADD"
    /\ Decision(IGNORE, PaperB) \in run.decisions
    /\ gitIndex[PaperB] = 0 /\ worktree[PaperB] # 0
    /\ Count(ix, PaperB) = 0

\* ---- C7 ----------------------------------------------------------------
\* The steps of the grammar as the claim orders them, the file name split
\* at the first separator: the reason of the first step that fails, or
\* "paper" when none does.
ClaimedOutcome(path) ==
    LET file_name == BaseName(path)
        parts == splitFirst(file_name, SEPARATOR, <<>>)
        tokens == split(parts[1], <<"_">>)
        authors == IF MatchesNumber(tokens[1]) THEN Tail(tokens) ELSE tokens
        number == IF MatchesNumber(tokens[1]) THEN Some(tokens[1]) ELSE None
    IN  IF ~Contains(file_name, SEPARATOR) THEN MissingSeparator
        ELSE IF authors = <<>> THEN NoAuthors
        ELSE IF \E i \in 1..Len(authors) : ~IsLetter(Head(authors[i] \o <<"?">>))
             THEN NonNameAuthor
        ELSE LET r == parseTitle(path, <<>>, authors, number, parts[2])
             IN  IF r.paper # None THEN "paper" ELSE Get(r.error).reason

\* what parse returned: the reason of its error, or "paper"
Outcome(r) == IF r.paper # None THEN "paper" ELSE Get(r.error).reason

\* C7: parse returns exactly one of (Paper, ParseError), and the error of
\* the first step of the grammar that fails, in the order: no separator in
\* the file name (which is otherwise split at the first one), no author
\* left after the number, an author that does not start with a letter, no
\* year, a BibTex key that does not parse again; a Paper otherwise.
C7_ParseErrorOrder ==
    (call.fn = "parse" /\ ret.parsed # None) =>
        /\ (Get(ret.parsed).paper = None) # (Get(ret.parsed).error = None)
        /\ Outcome(Get(ret.parsed)) = ClaimedOutcome(call.path)

\* ---- C8 ----------------------------------------------------------------
\* [A-Z][a-z]* : a capitalized name
IsCapitalized(w) ==
    w # <<>> /\ IsUpper(w[1]) /\ \A i \in 2..Len(w) : w[i] \in LowerSet

\* the words of a camel-case segment: each starts at an upper-case letter
RECURSIVE camelWordsAcc(_, _)
camelWordsAcc(s, cur) ==
    IF s = <<>> THEN (IF cur = <<>> THEN <<>> ELSE <<cur>>)
    ELSE IF IsUpper(s[1]) /\ cur # <<>> THEN <<cur>> \o camelWordsAcc(Tail(s), <<s[1]>>)
    ELSE camelWordsAcc(Tail(s), Append(cur, s[1]))

CamelWords(seg) == camelWordsAcc(seg, <<>>)

IsCamelCase(seg) ==
    /\ seg # <<>>
    /\ IsUpper(seg[1])
    /\ \A i \in 1..Len(seg) : IsLetter(seg[i]) \/ IsDigit(seg[i])

\* a canonical name as the claim describes it
Canonical(f) ==
    /\ f.sep = SEPARATOR
    /\ Len(f.year) = 4 /\ (\A i \in 1..4 : IsDigit(f.year[i])) /\ f.year[1] # "0"
    /\ f.authors # <<>>
    /\ \A i \in 1..Len(f.authors) : IsCapitalized(f.authors[i]) \/ f.authors[i] = ET_AL
    /\ \A i \in 1..Len(f.segments) : IsCamelCase(f.segments[i])

\* some word of the title can start the BibTex key
HasKeyWord(f) ==
    \E i \in 1..Len(f.segments) : \E j \in 1..Len(CamelWords(f.segments[i])) :
        lower(CamelWords(f.segments[i])[j]) \notin SKIP_TITLE_WORDS

\* every word of the title has two characters or more, or is the word A
NoShortWord(f) ==
    \A i \in 1..Len(f.segments) : \A j \in 1..Len(CamelWords(f.segments[i])) :
        LET w == CamelWords(f.segments[i])[j] IN Len(w) >= 2 \/ w = <<"A">>

\* no segment after the first starts like a flag
NoFlagSegment(f) ==
    \A i \in 2..Len(f.segments) : \A k \in 1..Len(PUB_FLAGS) :
        ~IsPrefix(PUB_FLAGS[k], lower(f.segments[i]))

\* no segment has three letters A in a row
NoTripleA(f) ==
    \A i \in 1..Len(f.segments) : ~Contains(f.segments[i], Chars("AAA"))

\* the names the round trip is stated for
RoundTrips(f) ==
    /\ Canonical(f) /\ HasKeyWord(f) /\ NoShortWord(f)
    /\ NoFlagSegment(f) /\ NoTripleA(f)

C9_BibtexRoundTrip ==
    (call.fn = "bibtex" /\ ret.parsed # None) => Get(ret.parsed) = Some(call.key)

\* ---- C10 ---------------------------------------------------------------
\* C10: remove_prefixes returns members of its input; it drops a member
\* only if that member is a strict prefix of a member it keeps, and keeps
\* none that is a strict prefix of another member; so the result is empty
\* only if the input is, and it is what test_remove_prefixes expects.
C10_RemovePrefixes ==
    (call.fn = "remove_prefixes" /\ ret # None) =>
        LET result == Get(ret) IN
        /\ result \subseteq call.ids
        /\ \A s \in call.ids \ result : \E t \in result : IsStrictPrefix(s, t)
        /\ \A s \in result : ~\E t \in call.ids : IsStrictPrefix(s, t)
        /\ (call.ids # {} => result # {})
        /\ \A t \in PrefixTests : call.ids = t.inp => result = t.expected

C10_Witness ==
    /\ call.fn = "remove_prefixes"
    /\ ret # None
    /\ Cardinality(call.ids) = 3
    /\ Cardinality(Get(ret)) = 1

\* ---- C17 ---------------------------------------------------------------
\* the path has a component .git
HasGitComponent(p) == Contains(<<"/">> \o p \o <<"/">>, Chars("/.git/"))

\* the name of the path is a stem, a dot and a configured ending
HasValidEnding(p) ==
    \E e \in all_endings :
        LET name == BaseName(p)
        IN  Len(name) > Len(e) + 1 /\ From(name, Len(name) - Len(e)) = <<".">> \o e

\* C17: apply_all_filters yields exactly the input actions whose path has
\* no component .git, has a suffix of the configured endings and is not
\* the argument of an IGNORE decision, in the order of the input and with
\* the action type and the path they came with.
C17_ApplyAllFilters ==
    (call.fn = "apply_all_filters" /\ ret # None) =>
        LET ignored == {d.arg1 : d \in {e \in call.decisions : e.relation = "IGNORE"}}
            passes(ia) ==
                /\ ~HasGitComponent(Chars(ia.path))
                /\ HasValidEnding(Chars(ia.path))
                /\ ia.path \notin ignored
        IN  Get(ret) = SelectSeq(call.actions, passes)

C17_Witness ==
    /\ call.fn = "apply_all_filters"
    /\ ret # None
    /\ call.actions = <<IndexingAction("??", GitLikeFile), IndexingAction("M", PaperB)>>
    /\ call.decisions = {Decision(IGNORE, PaperA), Decision(FULLTEXT_TOO_SLOW, PaperB)}
    /\ Get(ret) = call.actions

\* ---- C18 ---------------------------------------------------------------
\* the nine combinations of the two policies
Policies == [use_git : {TRUE}, git_uncommitted : GitNew, git_untracked : GitNew]

\* the path passes the filters under the decisions of the run
PassesFilters(f) ==
    /\ ~HasGitComponent(Chars(f))
    /\ HasValidEnding(Chars(f))
    /\ Decision(IGNORE, f) \notin run.decisions

\* the files with a staged change: added to the git index, or changed in it
StagedChanges == {f \in TreeFiles : gitIndex[f] # 0 /\ gitIndex[f] # head.tree[f]}

\* the files that git does not track
UntrackedFiles == {f \in TreeFiles : gitIndex[f] = 0 /\ worktree[f] # 0}

\* C18: in an incremental run, under each of the nine combinations, the
\* action set starts with the filtered actions of the committed diff, the
\* same under all combinations; what follows holds an action A or M for
\* every staged change that passes the filters if the staged policy is ADD
\* and none of a tracked file otherwise, and an action A for every
\* untracked file that passes the filters if the untracked policy is ADD
\* and none of an untracked file otherwise; no action is of type '??'.
C18_PolicyIndependence ==
    (run.pc = "find" /\ ~run.full /\ run.commit # None /\ Get(run.commit).rev = "hash") =>
        \A c \in Policies :
            LET acts == findActions(FALSE, c, run.decisions, run.commit,
                                    head, gitIndex, worktree)
                diff == apply_all_filters(git_difftree(Get(run.commit), head), run.decisions)
                rest == SubSeq(acts, Len(diff) + 1, Len(acts))
                has(f, types) ==
                    \E i \in 1..Len(rest) : rest[i].path = f /\ rest[i].action \in types
            IN  /\ Len(diff) <= Len(acts) /\ SubSeq(acts, 1, Len(diff)) = diff
                /\ \A i \in 1..Len(acts) : acts[i].action # "??"
                /\ \A f \in TreeFiles :
                       /\ (c.git_uncommitted = "ADD" /\ f \in StagedChanges /\ PassesFilters(f))
                              => has(f, {"A", "M"})
                       /\ (c.git_uncommitted # "ADD" /\ gitIndex[f] # 0) => ~has(f, ActionTypes)
                       /\ (c.git_untracked = "ADD" /\ f \in UntrackedFiles /\ PassesFilters(f))
                              => has(f, {"A"})
                       /\ (c.git_untracked # "ADD" /\ f \in UntrackedFiles)
                              => ~has(f, ActionTypes)

\* ---- C19 ---------------------------------------------------------------
\* the action that the loop of the run is at
AtAction == run.papers[run.i]

\* the loop is at an 'A' of a path with a FULLTEXT_TOO_SLOW decision
AtTooSlowAdd ==
    /\ run.pc = "loop"
    /\ run.i <= Len(run.papers)
    /\ AtAction.action = "A"
    /\ AtAction.path \in run.too_slow

\* C19: the decisions that a run has recorded, those of a too slow
\* extraction among them, are in the decisions file once the run has
\* written it; and a step of the loop at an 'A' of a path that has such a
\* decision goes on with the run, records no new decision, and stages a
\* document of the path.
C19_TooSlowSkipped ==
    /\ [](run.pc \in {"categories", "schema", "schema_print", "post", "commit_print", "done"}
              /\ run.committed => run.decisions \subseteq decisionsFile)
    /\ [][AtTooSlowAdd /\ IndexPaper =>
              /\ run'.pc = "loop"
              /\ run'.decisions = run.decisions
              /\ Len(run'.w) = Len(run.w) + 1
              /\ run'.w[Len(run'.w)].op = "add"
              /\ run'.w[Len(run'.w)].path = AtAction.path]_vars

\* ---- C20 ---------------------------------------------------------------
\* C20: whatever full and incremental runs there have been, the index on
\* disk holds at most one document of a path.
C20_OneDocumentPerPath == \A p \in AllFiles : Count(ix, p) <= 1

\* ---- C11 ---------------------------------------------------------------
\* C11: the DOI and the arXiv id that extract_ids_from_fulltext returns are
\* each the one candidate of its kind that is left, of those found in the
\* first ids_chars characters, once the candidates that are strict prefixes
\* of another are discarded, and absent when none or several are left.
C11_ExtractIds ==
    (call.fn = "extract_ids_from_fulltext" /\ ret # None) =>
        /\ Get(ret).doi = onlyOne(remove_prefixes(dois_of(call.fulltext, call.ids_chars)))
        /\ Get(ret).arxiv = onlyOne(remove_prefixes(arxivs_of(call.fulltext, call.ids_chars)))

\* ---- C12 ---------------------------------------------------------------
\* C12: the distance from a to b is the distance from b to a, also when
\* just one of the two Papers has a doi or an arXiv id.
C12_DistanceSymmetric ==
    (call.fn = "paper_distance" /\ ret # None) =>
        Get(ret) = paper_distance(call.b, call.a)

\* ---- C13 ---------------------------------------------------------------
\* C13: paper_distance returns a value for every two Papers, the value lies
\* between 0 and 1, and it is 0 for a Paper and itself.
C13_DistanceDefined ==
    (call.fn = "paper_distance" /\ ret # None) =>
        /\ Get(ret).ok
        /\ FLeq(FZero, Get(ret).value) /\ FLeq(Get(ret).value, FOne)
        /\ call.a = call.b => Get(ret).value = FZero

\* ---- C14 ---------------------------------------------------------------
\* the retrieved Papers that find_close_matches may return, and those of
\* them within max_dist of the reference
Candidates ==
    {c \in SeqRange(call.retrieved) : call.include_exact \/ c # call.query}
CloseCandidates ==
    {c \in Candidates :
        /\ paper_distance(call.query, c).ok
        /\ FLeq(paper_distance(call.query, c).value, call.max_dist)}

\* C14: find_close_matches returns a list that is in ascending order of
\* distance, has at most limit entries, all of them retrieved and within
\* max_dist, and holds the limit closest of the retrieved Papers within
\* max_dist; the reference is not in it unless include_exact is set.
C14_CloseMatches ==
    (call.fn = "find_close_matches" /\ ret # None) =>
        LET matches == Get(ret).value
        IN /\ Get(ret).raised = ""
           /\ \A i \in 1..(Len(matches) - 1) : FLeq(matches[i].dist, matches[i + 1].dist)
           /\ Len(matches) <= call.limit
           /\ \A i \in 1..Len(matches) :
                  /\ matches[i].candidate \in CloseCandidates
                  /\ Ok(matches[i].dist) = paper_distance(call.query, matches[i].candidate)
           /\ Len(matches) = MinOf(call.limit, Cardinality(CloseCandidates))
           /\ \A c \in CloseCandidates :
                  (\A i \in 1..Len(matches) : matches[i].candidate # c) =>
                      \A i \in 1..Len(matches) :
                          FLeq(matches[i].dist, paper_distance(call.query, c).value)
           /\ ~call.include_exact =>
                  \A i \in 1..Len(matches) : matches[i].candidate # call.query

\* ---- C15 ---------------------------------------------------------------
\* whether the decisions hold the two paths as an ignored pair, in either order
IgnoredPair(a, b) ==
    \E d \in call.decisions :
        /\ d.relation = "IGNORE_DUPLICATE"
        /\ <<d.arg1, d.arg2>> \in {<<a.path, b.path>>, <<b.path, a.path>>}

\* the close matches of the scan: the pivot, the Paper retrieved for it
\* within the distance of a duplicate, and that distance
Observed ==
    UNION {{[pivot |-> call.indexed[i], candidate |-> c,
             dist |-> paper_distance(call.indexed[i], c).value] :
                c \in SeqRange(call.retrieved[i])} : i \in 1..Len(call.indexed)}

CloseObserved ==
    {o \in Observed :
        /\ o.candidate # o.pivot
        /\ paper_distance(o.pivot, o.candidate).ok
        /\ FLeq(o.dist, Frac(35, 100))
        /\ ~IgnoredPair(o.pivot, o.candidate)}

\* C15: the scan lists every pair of Papers that it found close once, under
\* the key that is the same whichever of the two was the pivot, with the
\* least of the distances found for the pair, in ascending order of distance.
C15_PairsOnce ==
    (call.fn = "all_duplicates" /\ ret # None) =>
        LET dupes == Get(ret).value
        IN /\ Get(ret).raised = ""
           /\ \A i, j \in 1..Len(dupes) :
                  SeqRange(dupes[i].pair) = SeqRange(dupes[j].pair) => i = j
           /\ \A o \in CloseObserved :
                  \E i \in 1..Len(dupes) :
                      /\ dupes[i].pair = sortedPair(o.pivot, o.candidate)
                      /\ FLeq(dupes[i].dist, o.dist)
           /\ \A i \in 1..Len(dupes) :
                  \E o \in CloseObserved :
                      /\ dupes[i].pair = sortedPair(o.pivot, o.candidate)
                      /\ dupes[i].dist = o.dist
           /\ \A i \in 1..(Len(dupes) - 1) : FLeq(dupes[i].dist, dupes[i + 1].dist)

\* ---- C16 ---------------------------------------------------------------
\* C16: a scan that starts from decisions which hold a pair as ignored, in
\* either order of its two paths, runs to its end and lists the pair under
\* neither pivot.
C16_IgnoredPairSkipped ==
    (call.fn = "all_duplicates" /\ ret # None /\ call.decisions # {}) =>
        /\ Get(ret).raised = ""
        /\ \A i \in 1..Len(Get(ret).value) :
               ~IgnoredPair(Get(ret).value[i].pair[1], Get(ret).value[i].pair[2])

\* ---- C21 ---------------------------------------------------------------
\* C21: a step of the loop at an action that is neither 'A' nor 'D', such as
\* the 'M' of a modified file, stages a new document of the path in the
\* writer: the action is not dropped.
C21_ModifiedApplied ==
    [][(/\ run.pc = "loop"
        /\ run.i <= Len(run.papers)
        /\ AtAction.action \notin {"A", "D"}
        /\ IndexPaper) =>
              /\ Len(run'.w) > Len(run.w)
              /\ run'.w[Len(run'.w)].op = "add"
              /\ run'.w[Len(run'.w)].path = AtAction.path]_vars

\* ---- C22 ---------------------------------------------------------------
\* the tag sequences of the 'A' actions of the run
addedTags(papers) ==
    {Get(ParsedFile[p].paper).tags : p \in pathsOf(papers, "A")}

\* a step that ends the run under way: it returns, raises or is stopped
RunEnds == run.pc # "idle" /\ run'.pc = "idle"

actionPaths(actions) == {actions[i].path : i \in 1..Len(actions)}

\* what follows the last dot of the name, in lower case
lowerEnding(f) ==
    LET name == BaseName(PathChars[f])
        i == LastDot(name)
    IN  IF i = 0 THEN <<>> ELSE lower(From(name, i + 1))

\* the order of Path on the files
PathLess(f, g) == PartsLess(PathParts(PathChars[f]), PathParts(PathChars[g]))

\* C23 as stated: yield_all_paths yields one 'A' for every file under the
\* root whose name ends in a dot and an ending in either case, every file
\* once, and the whole list in the order of the paths.
C23_AllPathsSorted ==
    (call.fn = "yield_all_paths" /\ ret # None) =>
        LET out == Get(ret)
            wanted == {f \in call.onDisk : lowerEnding(f) \in all_endings}
        IN  /\ \A i \in 1..Len(out) : out[i].action = "A"
            /\ actionPaths(out) = wanted
            /\ Len(out) = Cardinality(wanted)
            /\ \A i, j \in 1..Len(out) : i < j => PathLess(out[i].path, out[j].path)

\* C23 amended: one 'A' for every file whose name ends in a dot and an
\* ending in either case, every file once, the files of one ending after
\* the other in the order of the endings, and in the order of the paths
\* within an ending.
C23_AllPathsByEnding ==
    (call.fn = "yield_all_paths" /\ ret # None) =>
        LET out == Get(ret)
            wanted == {f \in call.onDisk : lowerEnding(f) \in all_endings}
        IN  /\ \A i \in 1..Len(out) : out[i].action = "A"
            /\ actionPaths(out) = wanted
            /\ Len(out) = Cardinality(wanted)
            /\ \A i, j \in 1..Len(out) : i < j =>
                   \/ StrLess(lowerEnding(out[i].path), lowerEnding(out[j].path))
                   \/ /\ lowerEnding(out[i].path) = lowerEnding(out[j].path)
                      /\ PathLess(out[i].path, out[j].path)

\* files of both endings and of both cases were there, with a file of
\* another ending, and the djvu file came first
C23_Witness ==
    /\ call.fn = "yield_all_paths"
    /\ {PaperA, UpperFile, GitLikeFile, TextFile} \subseteq call.onDisk
    /\ ret # None
    /\ Len(Get(ret)) >= 3
    /\ Get(ret)[1].path = GitLikeFile
    /\ UpperFile \in actionPaths(Get(ret))

\* ---- C24 ---------------------------------------------------------------
\* C24: wherever the process has stopped, the file of a stored variable
\* holds a complete value, the one it held before or the new one, and
\* never an empty line: schema_version is absent or a version, and
\* last_indexed_commit is absent or what current_commit printed.
C24_CrashSafe ==
    run.pc = "idle" =>
        /\ storedstate.schema_version \in {None, Some(SCHEMA_VERSION)}
        /\ \/ storedstate.last_indexed_commit = None
           \/ Get(storedstate.last_indexed_commit).rev \in {"initial", "hash"}

\* ---- C25 ---------------------------------------------------------------
\* the paths of the documents of the index on disk
docPaths(index) == {Docs(index)[i].path : i \in 1..Len(Docs(index))}

\* C25: when a full run returns, the paths of the documents of the index
\* are the files under the data root that have one of the endings, are not
\* under .git, are not ignored by a decision and have a name that parses,
\* and no other path; with no such file the index holds no document.
C25_FullRunExact ==
    (run.pc = "done" /\ run.full) =>
        docPaths(ix) =
            {f \in FilesOnDisk(worktree) :
                /\ lowerEnding(f) \in all_endings
                /\ ~is_in_gitdir(PathChars[f])
                /\ f \notin decisionsGet(run.decisions, IGNORE)
                /\ ParsedFile[f].paper # None}

\* ---- C26 ---------------------------------------------------------------
\* C26: the body of every document of the index, from which its doi and
\* its arxiv id are taken, is empty or the text of the file of its own
\* path; and the document that the loop stages for an 'A' of a path with a
\* FULLTEXT_TOO_SLOW decision has an empty body.
C26_OwnFileOnly ==
    /\ [](\A i \in 1..Len(Docs(ix)) :
              \/ Docs(ix)[i].body = <<>>
              \/ Docs(ix)[i].body[1] = Docs(ix)[i].path)
    /\ [][(AtTooSlowAdd /\ IndexPaper /\ Len(run'.w) > Len(run.w)) =>
              run'.w[Len(run'.w)].doc.body = <<>>]_vars

\* ---- C27 ---------------------------------------------------------------
\* C27: for every Paper that parse returns, result_to_paper of the fields
\* stored for it returns a Paper with the same path, bibtex, title,
\* authors, year, pub_type, tags and number, also where the Paper has no
\* tags or no pub_type.
C27_StoreRoundTrip ==
    (call.fn = "result_to_paper" /\ ret # None) =>
        /\ Get(ret).raised = ""
        /\ Get(ret).value.path = call.paper.path
        /\ Get(ret).value.bibtex = call.paper.bibtex
        /\ Get(ret).value.title = call.paper.title
        /\ Get(ret).value.authors = call.paper.authors
        /\ Get(ret).value.year = call.paper.year
        /\ Get(ret).value.pub_type = call.paper.pub_type
        /\ Get(ret).value.tags = call.paper.tags
        /\ Get(ret).value.number = call.paper.number

\* ---- C28 ---------------------------------------------------------------
\* C28: of the files under the data root, yield_actions yields the path of
\* a file if and only if apply_all_filters keeps an action of that path,
\* under the same decisions; so of a file with an ending in upper case.
C28_SameFilesAccepted ==
    (call.fn = "yield_actions" /\ ret # None) =>
        \A f \in call.onDisk :
            f \in actionPaths(Get(ret))
                <=> apply_all_filters(<<IndexingAction("A", f)>>, call.decisions) # <<>>

\* ---- C29 ---------------------------------------------------------------
\* an incremental run has started; the run before it was an incremental
\* one that added the document of f while f was untracked; f is no longer
\* in the working tree and is in no commit and not staged
UntrackedGone(f) ==
    /\ run.pc = "find"
    /\ ~run.full
    /\ run.commit # None
    /\ Get(run.commit).rev = "hash"
    /\ prev.outcome = "done"
    /\ prev.incremental
    /\ f \in prev.adds
    /\ f \in docPaths(ix)
    /\ worktree[f] = 0
    /\ gitIndex[f] = 0
    /\ head.tree[f] = 0
    /\ Get(run.commit).tree[f] = 0

\* C29: when an incremental run starts after a file that was indexed as
\* untracked has been removed from the working tree without having been
\* committed, the index comes to hold no document of the file.
C29_UntrackedRemoved ==
    \A f \in DynFiles : UntrackedGone(f) ~> (f \notin docPaths(ix))

\* ---- C30 ---------------------------------------------------------------
\* C30: whatever the user answers, the file is moved only to a path at
\* which there is no file when it is moved, so that every file that was
\* there keeps its content; and when rename returns None the file to
\* rename and all other files are as they were.
C30_NeverOverwrites ==
    /\ [][RenameMove => ret.disk[ret.new_path] = NoFile]_vars
    /\ [](call.fn = "rename" =>
              /\ \A f \in RenamePaths : call.disk[f] # NoFile => ret.disk[f] = call.disk[f]
              /\ (ret.pc = "returned" /\ ret.result = None) => ret.disk = call.disk)

=============================================================================
